---- MODULE Spec2Model ----
(***************************************************************************)
(* aitrans.nvim: the job registry, the job runner, the CLI provider        *)
(* executor and the output sessions.                                       *)
(*                                                                         *)
(* The repository holds two copies of the runner:                          *)
(*   impl = "main"   : denops/aitrans/main.ts, the dispatcher's own        *)
(*                     startApplyJob / runJob / stopJob over the `jobs`    *)
(*                     map, fed by executeCliProvider;                     *)
(*   impl = "runner" : denops/aitrans/jobs/runner.ts over the registry of  *)
(*                     jobs/manager.ts, driven as jobs/runner_test.ts and  *)
(*                     jobs/manager_test.ts drive it (a chunk generator    *)
(*                     that yields, ends or throws).                       *)
(* A text is a sequence of characters; NL and CR are the two characters    *)
(* the code treats specially.                                              *)
(***************************************************************************)
EXTENDS Integers, Sequences, FiniteSets, TLC

VARIABLES
  out,      \* the closure of the output session under study
  nvim,     \* the editor: the destination buffer, its extmark, the register
  olog,     \* the runner's position in its calls of the session, and history
  chat,     \* the chat slice of the store
  call,     \* the chat handlers in flight, each at one of its await points
  ui,       \* the chat windows and buffers, and the id source
  unit      \* a function or object of the program exercised by itself:
            \* its input, and what it returned or became

\* ------------------------------------------------------------------ bounds
\* the longest chunk sequence a provider sends
MaxChunks == 2

\* Jobs share nothing but the registry map: the model follows one job id
\* (crypto.randomUUID() never returns an id twice) ...
JobIds == {"job-1"}
\* ... and one id no job is ever registered under
UnknownId == "job-0"
AllIds == JobIds \cup {UnknownId}

\* ------------------------------------------------------------------- texts
NL == "\n"
CR == "\r"
None == "none"

RECURSIVE Concat(_)
Concat(ts) == IF ts = <<>> THEN <<>> ELSE Head(ts) \o Concat(Tail(ts))

\* String.prototype.split("\n")
RECURSIVE SplitNL(_)
SplitNL(t) ==
  IF \A i \in 1..Len(t) : t[i] # NL THEN <<t>>
  ELSE LET k == CHOOSE i \in 1..Len(t) : t[i] = NL /\ \A m \in 1..(i - 1) : t[m] # NL
       IN  <<SubSeq(t, 1, k - 1)>> \o SplitNL(SubSeq(t, k + 1, Len(t)))

\* Array.prototype.join("\n")
RECURSIVE JoinNL(_)
JoinNL(ls) ==
  IF ls = <<>> THEN <<>>
  ELSE IF Len(ls) = 1 THEN ls[1]
  ELSE ls[1] \o <<NL>> \o JoinNL(Tail(ls))

\* text.replace(/\r/g, "")
StripCR(t) == SelectSeq(t, LAMBDA c : c # CR)

splitText(t) == SplitNL(StripCR(t))

\* String.prototype.trimEnd(): the white space at the end is dropped
Space == " "
RECURSIVE trimEnd(_)
trimEnd(t) ==
  IF Len(t) > 0 /\ t[Len(t)] \in {Space, NL, CR} THEN trimEnd(SubSeq(t, 1, Len(t) - 1))
  ELSE t

\* (mutant) append that opens a new line for its first segment too
BufferAppendPush(lines, t) == lines \o SplitNL(t)

\* createStreamingBuffer().append: the last line is extended by the first
\* segment, every further segment opens a new line
BufferAppend(lines, t) ==
  IF Len(t) = 0 THEN lines
  ELSE LET segments == SplitNL(t)
       IN  [lines EXCEPT ![Len(lines)] = @ \o segments[1]] \o Tail(segments)

EmptyBuffer == <<<<>>>>

StringReason(m) == [kind |-> "string", msg |-> m]
ErrorReason(m) == [kind |-> "error", msg |-> m]
\* a reason that is neither an Error nor a string
OtherReason(v) == [kind |-> "other", value |-> v]

\* JSON.stringify of a value { code: <number> }
JSONStringify(v) == "{\"code\":" \o ToString(v.code) \o "}"

\* formatReason: an Error by its message, a string verbatim, anything else
\* by JSON.stringify
formatReason(reason) ==
  IF reason.kind = "error" THEN reason.msg
  ELSE IF reason.kind = "string" THEN reason.msg
  ELSE JSONStringify(reason.value)

\* -------------------------------------------------------------- constants
JobStatus == {"pending", "streaming", "applied", "error", "stopped"}
Terminal == {"applied", "error", "stopped"}

\* the text deltas a provider may send; <<>> is the empty string
TextDeltas == {<<>>, <<"a", CR>>, <<NL, "b">>}
\* a usage_partial carries input, output, both or neither
UsagePartials == {[input |-> 10]}
\* a NormalizedChunk: every field is optional, a field the chunk does not
\* carry is not in its domain
ChunkSet ==
  {[text_delta |-> t] : t \in TextDeltas}
  \cup {[usage_partial |-> u] : u \in UsagePartials}
NoChunk == [raw |-> None]
\* `let usage: TemplateCompletionUsage | undefined`: no field defined yet
NoUsage == [f \in {} |-> 0]

CliProviders == {"codex-cli", "claude-cli"}
cliStopSignal(provider) == IF provider = "codex-cli" THEN "SIGINT" ELSE "SIGTERM"

ErrStream == "stream failure"
ErrFinalize == "nvim_buf_set_text failed"
ErrTimeout == "aitrans: CLI execution timed out"
ErrExit == "aitrans: CLI exited with code 1"
ErrStopped == "aitrans: job stopped"
MsgJobStopped == "Job stopped"

\* ------------------------------------------------- store/chat.ts (chat slice)
HISTORY_LIMIT == 20

\* `session: ChatSessionState | null`: null is the record without an id
NoSession == [null |-> TRUE]
HasSession(state) == "id" \in DOMAIN state.session
\* initialState
InitialChatState == [session |-> NoSession, history |-> <<>>]

\* the ChatOpenOptions a session is created from
ChatOpts(template, provider, followUp, context) ==
  [template |-> template, provider |-> provider, follow_up |-> followUp,
   provider_context |-> context]
\* `providerContext?: ProviderContext`: undefined is the record without a
\* provider
NoContext == [undefined |-> TRUE]
DefaultOpts ==
  ChatOpts("tmpl", "codex-cli", TRUE,
           [provider |-> "codex-cli", thread_id |-> "thread-1"])

\* initializeChatBuffers: the ChatSessionState it returns (the id is
\* crypto.randomUUID(), never returned twice)
ChatSession(id, opts) ==
  [id |-> id, template |-> opts.template, provider |-> opts.provider,
   followUpEnabled |-> opts.follow_up,
   providerContext |->
     IF "provider" \in DOMAIN opts.provider_context THEN opts.provider_context
     ELSE IF opts.provider # None THEN [provider |-> opts.provider]
     ELSE NoContext,
   messages |-> <<>>, streaming |-> FALSE]

ChatMessage(role, content) == [role |-> role, content |-> content]

\* the reducers of chatSlice
startSession(state, s) == [state EXCEPT !.session = s]
endSession(state) == [state EXCEPT !.session = NoSession]
setMessages(state, ms) ==
  IF HasSession(state) THEN [state EXCEPT !.session.messages = ms] ELSE state
pushMessage(state, m) ==
  IF HasSession(state) THEN [state EXCEPT !.session.messages = Append(@, m)] ELSE state
setStreaming(state, b) ==
  IF HasSession(state) THEN [state EXCEPT !.session.streaming = b] ELSE state
\* (mutant) setProviderContext that replaces the context by the payload
setProviderContextReplace(state, payload) ==
  IF ~HasSession(state) \/ "provider" \notin DOMAIN payload THEN state
  ELSE IF state.session.provider # None /\ state.session.provider # payload.provider
  THEN state
  ELSE [state EXCEPT !.session.providerContext = payload]
\* setProviderContext: dropped without a session, for a null payload and for
\* another provider than the session's; else { ...(context ?? { provider }),
\* ...payload }
setProviderContext(state, payload) ==
  IF ~HasSession(state) \/ "provider" \notin DOMAIN payload THEN state
  ELSE IF state.session.provider # None /\ state.session.provider # payload.provider
  THEN state
  ELSE LET base == IF "provider" \in DOMAIN state.session.providerContext
                   THEN state.session.providerContext
                   ELSE [provider |-> payload.provider]
       IN  [state EXCEPT !.session.providerContext =
              [f \in DOMAIN base \cup DOMAIN payload |->
                 IF f \in DOMAIN payload THEN payload[f] ELSE base[f]]]
\* (mutant) archiveSession that appends at the tail and cuts the head
archiveSessionTail(state, entry) ==
  LET all == state.history \o <<entry>>
  IN  [state EXCEPT !.history =
         SubSeq(all, IF Len(all) > HISTORY_LIMIT THEN 2 ELSE 1, Len(all))]
\* [entry, ...state.history].slice(0, HISTORY_LIMIT)
archiveSession(state, entry) ==
  LET all == <<entry>> \o state.history
  IN  [state EXCEPT !.history =
         SubSeq(all, 1, IF Len(all) > HISTORY_LIMIT THEN HISTORY_LIMIT ELSE Len(all))]

\* ------------------------------------------------------------ the editor
\* nvim_buf_set_lines(buf, start, end, strict, replacement): rows are
\* 0-based, end is exclusive
SetLines(buf, start, end, replacement) ==
  SubSeq(buf, 1, start) \o replacement \o SubSeq(buf, end + 1, Len(buf))

\* nvim_buf_set_text(buf, r1, c1, r2, c2, lines): the text between the two
\* positions is replaced; lines holds at least one line
SetText(buf, r1, c1, r2, c2, ls) ==
  LET pre == SubSeq(buf[r1 + 1], 1, c1)
      suf == SubSeq(buf[r2 + 1], c2 + 1, Len(buf[r2 + 1]))
      mid == IF Len(ls) = 1 THEN <<pre \o ls[1] \o suf>>
             ELSE <<pre \o ls[1]>> \o SubSeq(ls, 2, Len(ls) - 1) \o <<ls[Len(ls)] \o suf>>
  IN  SubSeq(buf, 1, r1) \o mid \o SubSeq(buf, r2 + 2, Len(buf))

\* (mutant) right_gravity = false: the extmark stays where it was
MarkStays(mark, ls) == mark

\* an extmark with right_gravity = true after text was inserted at its
\* position: it sits at the end of the inserted text
MarkAfterInsert(mark, ls) ==
  IF Len(ls) = 1 THEN <<mark[1], mark[2] + Len(ls[1])>>
  ELSE <<mark[1] + Len(ls) - 1, Len(ls[Len(ls)])>>

\* the buffers a request starts from and the selections in them
\* (TemplateContext: rows and columns are 1-based, end_pos.col inclusive)
SourceBuffer == <<<<"x", "y">>, <<"z">>>>
Selections ==
  {[start_pos |-> [row |-> 1, col |-> 1], end_pos |-> [row |-> 1, col |-> 2]],
   [start_pos |-> [row |-> 1, col |-> 2], end_pos |-> [row |-> 2, col |-> 1]]}
OldRegister == <<"o", "l", "d">>
ScratchHeader == <<<<"# Aitrans Scratch">>, <<>>>>
ResponseHeader == <<<<"# Aitrans Response">>, <<>>>>
\* buildResponseBufferLines(opts.initial_response_lines): the lines given,
\* the header when none are
buildResponseBufferLines(opts) ==
  IF "initial_response_lines" \in DOMAIN opts /\ Len(opts.initial_response_lines) > 0
  THEN opts.initial_response_lines
  ELSE ResponseHeader

\* ------------------------------- core/output.ts, chat/ui/buffer_manager.ts
\* what a call of a session method leaves behind: the session's closure,
\* the editor, the chat store, and whether the call raised
Result(o, n, c, raised) == [out |-> o, nvim |-> n, chat |-> c, raised |-> raised]

\* `if (!reason) return`: "", 0, null and undefined are falsy
Falsy(reason) ==
  \/ reason.kind = "string" /\ reason.msg = ""
  \/ reason.kind = "other" /\ reason.value = [null |-> TRUE]

\* appendLinesToResponse: a blank line first when the buffer's last line is
\* not blank, a blank line last when the lines do not end in one
appendLinesToResponse(n, ls) ==
  IF ~n.valid THEN n
  ELSE LET b0 == IF Len(n.buf) = 0 THEN ResponseHeader ELSE n.buf
           b1 == IF Len(b0[Len(b0)]) > 0 THEN b0 \o <<<<>>>> ELSE b0
       IN  [n EXCEPT !.buf = b1 \o (IF ls[Len(ls)] = <<>> THEN ls ELSE ls \o <<<<>>>>)]

\* updateAssistantEntry: the content lines below the entry's header row are
\* replaced; nothing happens when the buffer is gone
updateAssistantEntry(o, n, ls) ==
  IF ~n.valid THEN Result(o, n, <<>>, FALSE)
  ELSE LET contentRow == n.mark[1] + 1
       IN  Result([o EXCEPT !.contentLines = Len(ls)],
                  [n EXCEPT !.buf = SetLines(@, contentRow, contentRow + o.contentLines, ls)],
                  <<>>, FALSE)

\* (mutant) a stop that clears the loading frame and leaves the loop running
spinnerStopLoopRuns(o, n) ==
  IF ~o.spinner THEN Result(o, n, <<>>, FALSE)
  ELSE updateAssistantEntry(o, n, <<<<>>>>)

\* spinner.stop(): the loop ends and the loading frame is cleared; a raise
\* of the clearing update is ignored
spinnerStop(o, n) ==
  IF ~o.spinner THEN Result(o, n, <<>>, FALSE)
  ELSE updateAssistantEntry([o EXCEPT !.spinner = FALSE], n, <<<<>>>>)

\* scratch: rewrite(lines) replaces everything below the header
rewrite(o, n, c) ==
  IF ~n.valid THEN Result(o, n, c, TRUE)
  ELSE Result(o, [n EXCEPT !.buf = SetLines(@, o.headerLines, Len(@), o.writer)], c, FALSE)

\* insertion of lines at the extmark of an append session
InsertAtMark(n, ls) ==
  [n EXCEPT !.buf = SetText(@, n.mark[1], n.mark[2], n.mark[1], n.mark[2], ls),
            !.mark = MarkAfterInsert(@, ls)]

NoOutput ==
  [mode |-> None, ctx |-> [null |-> TRUE], writer |-> EmptyBuffer, insertIndex |-> 0,
   hasAppended |-> FALSE, spinner |-> FALSE, contentLines |-> 0, headerLines |-> 0]

\* createOutputSession / createChatOutputSession
createOutputSession(mode, ctx, n, c) ==
  LET o == [NoOutput EXCEPT !.mode = mode, !.ctx = ctx]
  IN  CASE mode = "append" ->
             LET lineCount == Len(n.buf)
                 insertIndex == IF ctx.end_pos.row < lineCount THEN ctx.end_pos.row
                                ELSE lineCount
             IN  Result([o EXCEPT !.insertIndex = insertIndex],
                        [n EXCEPT !.buf = SetLines(@, insertIndex, insertIndex, <<<<>>>>),
                                  !.mark = <<insertIndex, 0>>],
                        c, FALSE)
        [] mode = "scratch" ->
             Result([o EXCEPT !.headerLines = Len(ScratchHeader)],
                    [n EXCEPT !.buf = ScratchHeader], c, FALSE)
        [] mode = "chat" ->
             IF ~HasSession(c) THEN Result(NoOutput, n, c, TRUE)
             ELSE LET startRow == Len(n.buf)
                      n1 == appendLinesToResponse(n, <<<<"## Assistant">>, <<>>>>)
                  IN  Result([o EXCEPT !.contentLines = 1, !.spinner = TRUE],
                             [n1 EXCEPT !.mark = <<startRow, 0>>],
                             setStreaming(c, TRUE), FALSE)
        [] OTHER -> Result(o, n, c, FALSE)

\* session.append(text)
sessionAppend(o, n, c, t) ==
  IF Len(t) = 0 THEN Result(o, n, c, FALSE)
  ELSE LET o1 == [o EXCEPT !.writer = BufferAppend(@, t)]
       IN  CASE o.mode \in {"replace", "register"} -> Result(o1, n, c, FALSE)
             [] o.mode = "append" ->
                  IF ~n.valid THEN Result(o1, n, c, TRUE)
                  ELSE LET chunk == JoinNL(o1.writer)
                           o2 == [o1 EXCEPT !.writer = EmptyBuffer]
                       IN  IF Len(chunk) = 0 THEN Result(o2, n, c, FALSE)
                           ELSE Result([o2 EXCEPT !.hasAppended = TRUE],
                                       InsertAtMark(n, splitText(chunk)), c, FALSE)
             [] o.mode = "scratch" -> rewrite(o1, n, c)
             [] OTHER ->
                  LET s == spinnerStop(o, n)
                      u == updateAssistantEntry(
                             [s.out EXCEPT !.writer = BufferAppend(@, t)], s.nvim,
                             BufferAppend(o.writer, t))
                  IN  Result(u.out, u.nvim, c, FALSE)

\* session.finalize()
sessionFinalize(o, n, c) ==
  CASE o.mode = "replace" ->
         IF ~n.valid THEN Result(o, n, c, TRUE)
         ELSE Result(o,
                [n EXCEPT !.buf =
                   SetText(@, o.ctx.start_pos.row - 1, o.ctx.start_pos.col - 1,
                           o.ctx.end_pos.row - 1, o.ctx.end_pos.col,
                           splitText(JoinNL(o.writer)))],
                c, FALSE)
    [] o.mode = "register" -> Result(o, [n EXCEPT !.reg = JoinNL(o.writer)], c, FALSE)
    [] o.mode = "append" ->
         IF o.hasAppended THEN Result(o, n, c, FALSE)
         ELSE IF ~n.valid THEN Result(o, n, c, TRUE)
         ELSE Result(o, [n EXCEPT !.buf = SetLines(@, o.insertIndex, o.insertIndex + 1, <<>>)],
                     c, FALSE)
    [] o.mode = "scratch" -> rewrite(o, n, c)
    [] OTHER ->
         LET s == spinnerStop(o, n)
             u == updateAssistantEntry(s.out, s.nvim, o.writer)
         IN  Result(u.out, u.nvim,
                    setStreaming(pushMessage(c, ChatMessage("assistant", JoinNL(o.writer))),
                                 FALSE),
                    FALSE)

\* (mutant) fail that puts the diagnostic into the destination whatever
\* the session's mode
sessionFailWrites(o, n, c, reason) ==
  LET diag == <<<<"> ", formatReason(reason)>>>>
  IN  IF Falsy(reason) \/ ~n.valid THEN Result(o, n, c, FALSE)
      ELSE Result(o, [n EXCEPT !.buf = SetLines(@, Len(@), Len(@), diag),
                               !.reg = diag[1]], c, FALSE)

\* session.fail(reason)
sessionFail(o, n, c, reason) ==
  CASE o.mode \in {"replace", "register"} -> Result(o, n, c, FALSE)
    [] o.mode = "append" ->
         IF Falsy(reason) THEN Result(o, n, c, FALSE)
         ELSE IF ~n.valid THEN Result(o, n, c, TRUE)
         ELSE Result(o, InsertAtMark(n, splitText(<<NL, "> ", formatReason(reason)>>)),
                     c, FALSE)
    [] o.mode = "scratch" ->
         IF Falsy(reason) THEN Result(o, n, c, FALSE)
         ELSE rewrite([o EXCEPT !.writer =
                         BufferAppend(@, <<NL, "[aitrans] ", formatReason(reason)>>)],
                      n, c)
    [] OTHER ->
         LET s == spinnerStop(o, n)
             w == IF Falsy(reason) THEN o.writer
                  ELSE BufferAppend(o.writer, <<NL, "> ", formatReason(reason)>>)
             u == IF Falsy(reason) THEN s
                  ELSE updateAssistantEntry([s.out EXCEPT !.writer = w], s.nvim, w)
         IN  Result(u.out, u.nvim, setStreaming(c, FALSE), FALSE)

\* the ids crypto.randomUUID() hands out, in this order
SessionIds == {1, 2}
\* longest message log a chatSubmit still extends by one exchange
MaxMessages == 2

\* the dispatcher runs its handlers concurrently: two calls in flight
Calls == {1, 2}
NoCall == [op |-> None]
\* nothing is exercised by itself
NoUnit == [of |-> None]
\* the editor before any chat was opened: no response buffer, an empty
\* prompt, no job, nothing returned by chatSubmit yet
InitialUi ==
  [nextId |-> 1, clock |-> 0,
   bufs |-> [i \in SessionIds |-> [buf |-> <<>>, valid |-> FALSE]],
   prompt |-> <<>>, job |-> None, last |-> [ret |-> None, warning |-> FALSE]]
ChatIdle == chat = InitialChatState /\ call = [c \in Calls |-> NoCall] /\ ui = InitialUi

\* ------------------------------------ the runner's use of one session
\* longest sequence of append calls
MaxAppends == 2

OutputModes == {"replace", "append", "register", "scratch", "chat"}
\* the texts handed to append: "" is skipped by every session, "\r" is
\* text that splitText reduces to nothing
AppendTexts == {<<>>, <<"a">>, <<"b", NL, "c">>, <<CR>>}
\* the reasons handed to fail
Reasons ==
  {ErrorReason("boom"), StringReason(MsgJobStopped), StringReason(""),
   OtherReason([code |-> 1])}
PromptText == <<"h", "i">>

\* no output session yet: the source buffer and the register as the user
\* left them
OutputIdle ==
  /\ unit = NoUnit
  /\ out = NoOutput
  /\ nvim = [buf |-> SourceBuffer, valid |-> TRUE, mark |-> <<0, 0>>, reg |-> OldRegister]
  /\ olog = [pc |-> "idle", orig |-> SourceBuffer, appended |-> <<>>, reasons |-> <<>>,
             finalized |-> 0]


VARIABLES
  impl,     \* which copy of the runner this program runs
  jobs,     \* the ids in the registry map
  job,      \* job[j] = the JobRecord object: status, controller.signal.aborted
  pc,       \* where the runner of job j is suspended
  run,      \* the runner's locals and inputs
  sess,     \* the output session of job j and its destination
  cli,      \* the executeCliProvider generator of job j and its subprocess
  ret       \* what the last registry call returned

jobVars == <<impl, jobs, job, pc, run, sess, cli, ret>>
outVars == <<out, nvim, olog>>
chatVars == <<chat, call, ui>>
vars == <<jobVars, outVars, chatVars, unit>>

NoRet == [op |-> None, id |-> UnknownId, ok |-> FALSE]

NewSession(mode) ==
  [mode |-> mode, lines |-> EmptyBuffer, appended |-> <<>>, finalized |-> 0,
   failed |-> <<>>, writes |-> <<>>]

NewRun(tmpl) ==
  [templateId |-> tmpl, responseChunks |-> <<>>, usage |-> NoUsage,
   pending |-> NoChunk,
   \* history, not read by the code: the chunks yielded so far, how the
   \* iteration ended, the error caught and whether the handle was tripped
   \* when it was caught, whether the callback raised, and the status the
   \* finally block persisted
   stream |-> <<>>, ended |-> None, err |-> None, tripped |-> FALSE,
   cbRaised |-> FALSE, final |-> None]

NoCli ==
  [provider |-> None, child |-> None, success |-> FALSE, aborted |-> FALSE,
   timedOut |-> FALSE,
   timer |-> FALSE, listening |-> FALSE, signals |-> {}]

Init ==
  /\ impl \in {"main", "runner"}
  /\ jobs = {}
  /\ job = [j \in JobIds |-> [status |-> None, aborted |-> FALSE]]
  /\ pc = [j \in JobIds |-> "new"]
  /\ run = [j \in JobIds |-> NewRun(FALSE)]
  /\ sess = [j \in JobIds |-> NewSession(None)]
  /\ cli = [j \in JobIds |-> NoCli]
  /\ ret = NoRet
  /\ OutputIdle
  /\ ChatIdle

\* ------------------------------------------------------- output sessions
\* (mutant) a replace session that writes its destination on every append
SessionAppendEager(s, t) ==
  IF Len(t) = 0 THEN s
  ELSE LET ls == BufferAppend(s.lines, t)
       IN  [s EXCEPT !.lines = ls, !.writes = Append(@, ls)]

\* createReplaceSession / createScratchSession: append(text)
SessionAppend(s, t) ==
  IF Len(t) = 0 THEN s
  ELSE IF s.mode = "replace"
  THEN [s EXCEPT !.lines = BufferAppend(@, t)]
  ELSE LET ls == BufferAppend(s.lines, t)
       IN  [s EXCEPT !.lines = ls, !.writes = Append(@, ls)]

\* finalize(): replace substitutes the source range once, scratch rewrites
\* the body
SessionFinalize(s) ==
  IF s.mode = "replace"
  THEN [s EXCEPT !.writes = Append(@, splitText(JoinNL(s.lines)))]
  ELSE [s EXCEPT !.writes = Append(@, s.lines)]

\* fail(reason): a no-op for replace, a diagnostic line for scratch
SessionFail(s, reason) ==
  IF s.mode = "replace" THEN s
  ELSE LET ls == BufferAppend(s.lines, <<NL, "[aitrans] ", formatReason(reason)>>)
       IN  [s EXCEPT !.lines = ls, !.writes = Append(@, ls)]

\* replace.append and replace.fail touch no host API: the runner's await on
\* them resumes before any other request is served
Suspends(mode) == mode # "replace"

\* ---------------------------------------------------------- job registry
\* main.ts: the finally block of runJob
MainFinally(j) == jobs \cup {j}

\* jobs/manager.ts finalizeJob: removes the entry unconditionally
finalizeJob(reg, id) == reg \ {id}

\* jobs/runner.ts: the finally block of runJob (updateJobStatus writes the
\* status the record already has)
RunnerFinally(j, st) == IF st \in Terminal THEN finalizeJob(jobs, j) ELSE jobs

Finally(j, st) == IF impl = "main" THEN MainFinally(j) ELSE RunnerFinally(j, st)

\* ------------------------------------------------------------ the runner
\* (mutant) usage = { input_tokens: partial.input, output_tokens:
\* partial.output }: the last partial replaces the record
UsageMergeReplace(usage, c) ==
  IF "usage_partial" \notin DOMAIN c THEN usage
  ELSE LET up == c.usage_partial
           src == [input_tokens |-> "input", output_tokens |-> "output"]
           defined == {f \in DOMAIN src : src[f] \in DOMAIN up}
       IN  [f \in defined |-> up[src[f]]]

\* usage = { input_tokens: partial.input ?? usage?.input_tokens, ... }
UsageMerge(usage, c) ==
  IF "usage_partial" \notin DOMAIN c THEN usage
  ELSE LET up == c.usage_partial
           src == [input_tokens |-> "input", output_tokens |-> "output"]
           defined == {f \in DOMAIN src : src[f] \in DOMAIN up \/ f \in DOMAIN usage}
       IN  [f \in defined |-> IF src[f] \in DOMAIN up THEN up[src[f]] ELSE usage[f]]

\* (mutant) `if (chunk.text_delta !== undefined)`
HasTextDefined(c) == "text_delta" \in DOMAIN c

\* `if (chunk.text_delta)`: absent and "" are both falsy
HasText(c) == "text_delta" \in DOMAIN c /\ Len(c.text_delta) > 0

\* the catch block of runJob, entered with error e while the session is s
Catch(j, e, s) ==
  LET tripped == job[j].aborted
      st == IF tripped THEN "stopped" ELSE "error"
      reason == IF tripped THEN StringReason(MsgJobStopped) ELSE ErrorReason(e)
      s1 == [s EXCEPT !.failed = Append(@, reason)]
  IN  /\ job' = [job EXCEPT ![j].status = st]
      /\ run' = [run EXCEPT ![j].err = e, ![j].tripped = tripped,
                            ![j].ended = IF @ = None THEN "raised" ELSE @,
                            ![j].final = IF Suspends(s.mode) THEN @ ELSE st]
      /\ IF Suspends(s.mode)
         THEN /\ sess' = [sess EXCEPT ![j] = s1]
              /\ pc' = [pc EXCEPT ![j] = "fail"]
              /\ jobs' = jobs
         ELSE /\ sess' = [sess EXCEPT ![j] = SessionFail(s1, reason)]
              /\ pc' = [pc EXCEPT ![j] = "done"]
              /\ jobs' = Finally(j, st)

\* the body of the for-await loop for one yielded chunk
ProcessChunk(j, c) ==
  /\ job' = job
  /\ jobs' = jobs
  /\ IF HasText(c)
     THEN /\ sess' = [sess EXCEPT ![j] =
                IF Suspends(@.mode)
                THEN [@ EXCEPT !.appended = Append(@, c.text_delta)]
                ELSE SessionAppend([@ EXCEPT !.appended = Append(@, c.text_delta)],
                                   c.text_delta)]
          /\ IF Suspends(sess[j].mode)
             THEN /\ pc' = [pc EXCEPT ![j] = "append"]
                  /\ run' = [run EXCEPT ![j].stream = Append(@, c),
                                        ![j].responseChunks = Append(@, c.text_delta),
                                        ![j].pending = c]
             ELSE /\ pc' = pc
                  /\ run' = [run EXCEPT ![j].stream = Append(@, c),
                                        ![j].responseChunks = Append(@, c.text_delta),
                                        ![j].usage = UsageMerge(@, c)]
     ELSE /\ sess' = sess
          /\ pc' = pc
          /\ run' = [run EXCEPT ![j].stream = Append(@, c),
                                ![j].usage = UsageMerge(@, c)]

\* the chunk sequence is exhausted: session.finalize() is invoked
StreamEnd(j) ==
  /\ job' = job
  /\ jobs' = jobs
  /\ run' = [run EXCEPT ![j].ended = "exhausted"]
  /\ sess' = [sess EXCEPT ![j].finalized = @ + 1]
  /\ pc' = [pc EXCEPT ![j] = "finalize"]

\* `await session.append(text)` returns
AppendDone(j) ==
  /\ pc[j] = "append"
  /\ sess' = [sess EXCEPT ![j] = SessionAppend(@, run[j].pending.text_delta)]
  /\ run' = [run EXCEPT ![j].pending = NoChunk,
                        ![j].usage = UsageMerge(@, run[j].pending)]
  /\ pc' = [pc EXCEPT ![j] = "pull"]
  /\ UNCHANGED <<unit, outVars, chatVars, impl, jobs, job, cli, ret>>

\* `await session.finalize()` returns or raises
Finalize(j) ==
  /\ pc[j] = "finalize"
  /\ \E ok \in BOOLEAN :
       IF ok
       THEN /\ sess' = [sess EXCEPT ![j] = SessionFinalize(@)]
            /\ IF run[j].templateId
               THEN /\ pc' = [pc EXCEPT ![j] = "callback"]
                    /\ run' = run
                    /\ job' = job
                    /\ jobs' = jobs
               ELSE /\ pc' = [pc EXCEPT ![j] = "done"]
                    /\ run' = [run EXCEPT ![j].final = "applied"]
                    /\ job' = [job EXCEPT ![j].status = "applied"]
                    /\ jobs' = Finally(j, "applied")
       ELSE Catch(j, ErrFinalize, sess[j])
  /\ UNCHANGED <<unit, outVars, chatVars, impl, cli, ret>>

\* (mutant) no inner try/catch: a raising callback reaches the catch block
CallbackEscapes(j) ==
  /\ pc[j] = "callback"
  /\ \E raises \in BOOLEAN :
       IF raises
       THEN Catch(j, "callback failed", sess[j])
       ELSE /\ run' = [run EXCEPT ![j].final = "applied"]
            /\ job' = [job EXCEPT ![j].status = "applied"]
            /\ jobs' = Finally(j, "applied")
            /\ pc' = [pc EXCEPT ![j] = "done"]
            /\ sess' = sess
  /\ UNCHANGED <<unit, outVars, chatVars, impl, cli, ret>>

\* `await runTemplateCallback(...)` returns or raises; a raise is caught
\* and logged by the inner try/catch
Callback(j) ==
  /\ pc[j] = "callback"
  /\ \E raises \in BOOLEAN :
       run' = [run EXCEPT ![j].cbRaised = raises, ![j].final = "applied"]
  /\ job' = [job EXCEPT ![j].status = "applied"]
  /\ jobs' = Finally(j, "applied")
  /\ pc' = [pc EXCEPT ![j] = "done"]
  /\ UNCHANGED <<unit, outVars, chatVars, impl, sess, cli, ret>>

\* `await session.fail(reason)` returns
Fail(j) ==
  /\ pc[j] = "fail"
  /\ sess' = [sess EXCEPT ![j] = SessionFail(@, @.failed[Len(@.failed)])]
  /\ jobs' = Finally(j, job[j].status)
  /\ run' = [run EXCEPT ![j].final = job[j].status]
  /\ pc' = [pc EXCEPT ![j] = "done"]
  /\ UNCHANGED <<unit, outVars, chatVars, impl, job, cli, ret>>

\* --------------------------------------------- jobs/ (impl = "runner")
\* jobs/manager.ts registerJob(id): a pending record with a fresh controller
RegisterJob(j) ==
  /\ impl = "runner"
  /\ pc[j] = "new"
  /\ jobs' = jobs \cup {j}
  /\ job' = [job EXCEPT ![j] = [status |-> "pending", aborted |-> FALSE]]
  /\ pc' = [pc EXCEPT ![j] = "registered"]
  /\ UNCHANGED <<unit, outVars, chatVars, impl, run, sess, cli, ret>>

\* the caller trips the handle of the record registerJob returned
\* (jobs/runner_test.ts: job.controller.abort() before runJob)
AbortController(j) ==
  /\ impl = "runner"
  /\ pc[j] = "registered"
  /\ ~job[j].aborted
  /\ job' = [job EXCEPT ![j].aborted = TRUE]
  /\ UNCHANGED <<unit, outVars, chatVars, impl, jobs, pc, run, sess, cli, ret>>

\* jobs/runner.ts runJob: status = streaming, the first chunk is requested
RunJob(j) ==
  /\ impl = "runner"
  /\ pc[j] = "registered"
  /\ \E mode \in {"replace", "scratch"}, tmpl \in BOOLEAN :
       /\ sess' = [sess EXCEPT ![j] = NewSession(mode)]
       /\ run' = [run EXCEPT ![j] = NewRun(tmpl)]
  /\ job' = [job EXCEPT ![j].status = "streaming"]
  /\ pc' = [pc EXCEPT ![j] = "pull"]
  /\ UNCHANGED <<unit, outVars, chatVars, impl, jobs, cli, ret>>

\* the chunk generator handed to runJob yields a chunk
GenYield(j) ==
  /\ impl = "runner"
  /\ pc[j] = "pull"
  /\ Len(run[j].stream) < MaxChunks
  /\ \E c \in ChunkSet : ProcessChunk(j, c)
  /\ UNCHANGED <<unit, outVars, chatVars, impl, cli, ret>>

\* the chunk generator returns
GenEnd(j) ==
  /\ impl = "runner"
  /\ pc[j] = "pull"
  /\ StreamEnd(j)
  /\ UNCHANGED <<unit, outVars, chatVars, impl, cli, ret>>

\* the chunk generator throws
GenThrow(j) ==
  /\ impl = "runner"
  /\ pc[j] = "pull"
  /\ Catch(j, ErrStream, sess[j])
  /\ UNCHANGED <<unit, outVars, chatVars, impl, cli, ret>>

\* jobs/manager.ts updateJobStatus(id, status): false for an unknown id
updateJobStatus(id, st) ==
  /\ ret' = [op |-> "updateJobStatus", id |-> id, ok |-> id \in jobs]
  /\ job' = IF id \in jobs THEN [job EXCEPT ![id].status = st] ELSE job
  /\ jobs' = jobs

\* a caller of the registry updates a job no runner drives
\* (jobs/manager_test.ts)
UpdateJobStatus(id) ==
  /\ impl = "runner"
  /\ id \in JobIds => pc[id] \in {"new", "registered", "done"}
  /\ \E st \in JobStatus :
       \* a terminal status is the runner's to set
       /\ id \in jobs => st \notin Terminal
       /\ updateJobStatus(id, st)
  /\ UNCHANGED <<unit, outVars, chatVars, impl, pc, run, sess, cli>>

\* a caller of the registry removes a job no runner drives
\* (jobs/manager_test.ts)
FinalizeJob(id) ==
  /\ impl = "runner"
  /\ id \in JobIds => pc[id] \in {"new", "registered", "done"}
  /\ jobs' = finalizeJob(jobs, id)
  /\ ret' = [op |-> "finalizeJob", id |-> id, ok |-> TRUE]
  /\ UNCHANGED <<unit, outVars, chatVars, impl, job, pc, run, sess, cli>>

\* jobs/manager.ts stopJob(id): aborts the handle, sets status = stopped,
\* false for an unknown id
StopJobManager(id) ==
  /\ impl = "runner"
  /\ ret' = [op |-> "stopJob", id |-> id, ok |-> id \in jobs]
  /\ job' = IF id \in jobs
            THEN [job EXCEPT ![id] = [status |-> "stopped", aborted |-> TRUE]]
            ELSE job
  /\ UNCHANGED <<unit, outVars, chatVars, impl, jobs, pc, run, sess, cli>>

\* ------------------------------------------------ main.ts (impl = "main")
\* child.kill(options.stopSignal): a signal reaches a running subprocess;
\* on one that has exited kill throws and the throw is ignored
Kill(c, cause) ==
  IF c.child = "running"
  THEN [c EXCEPT !.signals = @ \cup {[cause |-> cause, sig |-> cliStopSignal(c.provider)]}]
  ELSE c

\* startApplyJob: the record is put into `jobs`, buildCliIterator and runJob
\* run up to the generator's first await (subprocess spawned, abort listener
\* and timer installed)
StartApplyJob(j) ==
  /\ impl = "main"
  /\ pc[j] = "new"
  /\ jobs' = jobs \cup {j}
  /\ job' = [job EXCEPT ![j] = [status |-> "streaming", aborted |-> FALSE]]
  /\ \E mode \in {"replace", "scratch"}, tmpl \in BOOLEAN, provider \in CliProviders :
       /\ sess' = [sess EXCEPT ![j] = NewSession(mode)]
       /\ run' = [run EXCEPT ![j] = NewRun(tmpl)]
       /\ cli' = [cli EXCEPT ![j] =
            [provider |-> provider, child |-> "running", success |-> FALSE,
             aborted |-> FALSE, timedOut |-> FALSE, timer |-> TRUE,
             listening |-> TRUE, signals |-> {}]]
  /\ pc' = [pc EXCEPT ![j] = "pull"]
  /\ UNCHANGED <<unit, outVars, chatVars, impl, ret>>

\* the subprocess writes a stdout line and consumeCliLine maps it to a chunk
CliYield(j) ==
  /\ impl = "main"
  /\ pc[j] = "pull"
  /\ cli[j].child = "running"
  /\ Len(run[j].stream) < MaxChunks
  /\ \E c \in ChunkSet : ProcessChunk(j, c)
  /\ UNCHANGED <<unit, outVars, chatVars, impl, cli, ret>>

\* the subprocess exits, by itself or after a signal, with any exit status
ChildExit(j) ==
  /\ impl = "main"
  /\ cli[j].child = "running"
  /\ \E success \in BOOLEAN :
       cli' = [cli EXCEPT ![j].child = "exited", ![j].success = success]
  /\ UNCHANGED <<unit, outVars, chatVars, impl, jobs, job, pc, run, sess, ret>>

\* (mutant) a timer that trips the job's cancellation handle
TimeoutAborts(j) ==
  /\ impl = "main"
  /\ cli[j].timer
  /\ cli' = [cli EXCEPT ![j] = Kill([@ EXCEPT !.timedOut = TRUE, !.timer = FALSE], "timeout")]
  /\ job' = [job EXCEPT ![j].aborted = TRUE]
  /\ UNCHANGED <<unit, outVars, chatVars, impl, jobs, pc, run, sess, ret>>

\* the setTimeout callback of executeCliProvider
Timeout(j) ==
  /\ impl = "main"
  /\ cli[j].timer
  /\ cli' = [cli EXCEPT ![j] = Kill([@ EXCEPT !.timedOut = TRUE, !.timer = FALSE], "timeout")]
  /\ UNCHANGED <<unit, outVars, chatVars, impl, jobs, job, pc, run, sess, ret>>

\* (mutant) no `if (aborted) throw`: an aborted run whose subprocess exits
\* with status 0 ends as an exhausted sequence
CliEndNoAbortThrow(j) ==
  /\ impl = "main"
  /\ pc[j] = "pull"
  /\ cli[j].child = "exited"
  /\ cli' = [cli EXCEPT ![j].timer = FALSE, ![j].listening = FALSE]
  /\ IF cli[j].timedOut THEN Catch(j, ErrTimeout, sess[j])
     ELSE IF ~cli[j].success /\ ~cli[j].aborted THEN Catch(j, ErrExit, sess[j])
     ELSE StreamEnd(j)
  /\ UNCHANGED <<unit, outVars, chatVars, impl, ret>>

\* executeCliProvider after stdout has ended: child.status, clearTimeout,
\* then timed out / failed / aborted / finished
CliEnd(j) ==
  /\ impl = "main"
  /\ pc[j] = "pull"
  /\ cli[j].child = "exited"
  /\ cli' = [cli EXCEPT ![j].timer = FALSE, ![j].listening = FALSE]
  /\ IF cli[j].timedOut THEN Catch(j, ErrTimeout, sess[j])
     ELSE IF ~cli[j].success /\ ~cli[j].aborted THEN Catch(j, ErrExit, sess[j])
     ELSE IF cli[j].aborted THEN Catch(j, ErrStopped, sess[j])
     ELSE StreamEnd(j)
  /\ UNCHANGED <<unit, outVars, chatVars, impl, ret>>

\* the abort listener executeCliProvider installs on the job's signal
abortHandler(c) == Kill([c EXCEPT !.aborted = TRUE], "abort")

\* (mutant) stopJob that reports success without looking the id up
StopJobMainBlind(id) ==
  /\ impl = "main"
  /\ ret' = [op |-> "stopJob", id |-> id, ok |-> TRUE]
  /\ IF id \in jobs
     THEN /\ job' = [job EXCEPT ![id] = [status |-> "stopped", aborted |-> TRUE]]
          /\ cli' = IF ~job[id].aborted /\ cli[id].listening
                    THEN [cli EXCEPT ![id] = Kill([@ EXCEPT !.aborted = TRUE], "abort")]
                    ELSE cli
     ELSE /\ job' = job
          /\ cli' = cli
  /\ UNCHANGED <<unit, outVars, chatVars, impl, jobs, pc, run, sess>>

\* main.ts stopJob(payload)
StopJobMain(id) ==
  /\ impl = "main"
  /\ ret' = [op |-> "stopJob", id |-> id, ok |-> id \in jobs]
  /\ IF id \in jobs
     THEN /\ job' = [job EXCEPT ![id] = [status |-> "stopped", aborted |-> TRUE]]
          \* controller.abort() dispatches `abort` once, to installed listeners
          /\ cli' = IF ~job[id].aborted /\ cli[id].listening
                    THEN [cli EXCEPT ![id] = abortHandler(@)]
                    ELSE cli
     ELSE /\ job' = job
          /\ cli' = cli
  /\ UNCHANGED <<unit, outVars, chatVars, impl, jobs, pc, run, sess>>

StopJob(id) == StopJobMain(id) \/ StopJobManager(id)

Next ==
  \/ \E j \in JobIds :
       \/ RegisterJob(j) \/ AbortController(j) \/ RunJob(j)
       \/ GenYield(j) \/ GenEnd(j) \/ GenThrow(j)
       \/ StartApplyJob(j) \/ CliYield(j) \/ ChildExit(j) \/ Timeout(j) \/ CliEnd(j)
       \/ AppendDone(j) \/ Finalize(j) \/ Callback(j) \/ Fail(j)
  \/ \E id \in AllIds :
       \/ StopJobMain(id) \/ StopJobManager(id)
       \/ UpdateJobStatus(id) \/ FinalizeJob(id)

Spec == Init /\ [][Next]_vars

TypeOK ==
  /\ impl \in {"main", "runner"}
  /\ jobs \subseteq JobIds
  /\ ret.id \in AllIds
  /\ \A j \in JobIds : job[j].status \in JobStatus \cup {None}
  /\ \A j \in JobIds : pc[j] \in {"new", "registered", "pull", "append", "finalize",
                                  "callback", "fail", "done"}


\* ------------------------------------------- the runner's usage record
\* the values a provider reports for one field of usage_partial
TokenCounts == {1, 2}
\* usage_partial: { input?: number; output?: number }, every combination
UsagePartialsAll ==
  {NoUsage}
  \cup {[input |-> i] : i \in TokenCounts}
  \cup {[output |-> o] : o \in TokenCounts}
  \cup {[input |-> i, output |-> o] : i \in TokenCounts, o \in TokenCounts}
\* chunks as the normalizers build them: usage alone, text alone, or both
\* (mapClaudeResult puts the result text and the usage into one chunk)
UsageChunkSet ==
  {[usage_partial |-> u] : u \in UsagePartialsAll}
  \cup {[text_delta |-> <<"a">>]}
  \cup {[text_delta |-> <<"a">>, usage_partial |-> [input |-> 2, output |-> 1]]}

\* the chunk generator handed to runJob yields a chunk of a provider that
\* reports usage
UsageYield(j) ==
  /\ impl = "runner"
  /\ pc[j] = "pull"
  /\ Len(run[j].stream) < MaxChunks
  /\ \E c \in UsageChunkSet : ProcessChunk(j, c)
  /\ UNCHANGED <<unit, outVars, chatVars, impl, cli, ret>>

InitUsage == Init /\ impl = "runner"

NextUsage ==
  \E j \in JobIds :
    \/ RegisterJob(j) \/ RunJob(j)
    \/ UsageYield(j) \/ GenEnd(j)
    \/ AppendDone(j) \/ Finalize(j) \/ Callback(j) \/ Fail(j)

SpecUsage == InitUsage /\ [][NextUsage]_vars

\* createSessionForOutput: for out = "chat" the prompt is logged into the
\* response buffer of the active chat first (ensureChatPromptLogged)
CreateSession ==
  /\ olog.pc = "idle"
  /\ \E mode \in OutputModes, ctx \in Selections :
       LET n0 == IF mode = "chat"
                 THEN appendLinesToResponse([nvim EXCEPT !.buf = ResponseHeader],
                                            <<<<"## User">>, PromptText>>)
                 ELSE nvim
           c0 == IF mode = "chat"
                 THEN pushMessage(chat, ChatMessage("user", PromptText))
                 ELSE chat
           r == createOutputSession(mode, ctx, n0, c0)
       IN  /\ out' = r.out
           /\ nvim' = r.nvim
           /\ chat' = r.chat
           /\ olog' = [olog EXCEPT !.pc = "open", !.orig = n0.buf]
  /\ UNCHANGED <<unit, jobVars, call, ui>>

\* runJob: `await session.append(chunk.text_delta)`; a raise enters the
\* catch block
AppendText ==
  /\ olog.pc = "open"
  /\ Len(olog.appended) < MaxAppends
  /\ \E t \in AppendTexts :
       LET r == sessionAppend(out, nvim, chat, t)
       IN  /\ out' = r.out
           /\ nvim' = r.nvim
           /\ chat' = r.chat
           /\ olog' = [olog EXCEPT !.appended = Append(@, t),
                                   !.pc = IF r.raised THEN "caught" ELSE "open"]
  /\ UNCHANGED <<unit, jobVars, call, ui>>

\* runJob: `await session.finalize()`
FinalizeSession ==
  /\ olog.pc = "open"
  /\ LET r == sessionFinalize(out, nvim, chat)
     IN  /\ out' = r.out
         /\ nvim' = r.nvim
         /\ chat' = r.chat
         /\ olog' = [olog EXCEPT !.finalized = @ + 1,
                                 !.pc = IF r.raised THEN "caught" ELSE "applied"]
  /\ UNCHANGED <<unit, jobVars, call, ui>>

\* the chunk iterator raises (a provider error, or the job was stopped)
StreamRaise ==
  /\ olog.pc = "open"
  /\ olog' = [olog EXCEPT !.pc = "caught"]
  /\ UNCHANGED <<unit, jobVars, out, nvim, chat, call, ui>>

\* runJob, catch block: `await session.fail(...)`; a raise of fail leaves
\* the catch block
FailSession ==
  /\ olog.pc = "caught"
  /\ \E reason \in Reasons :
       LET r == sessionFail(out, nvim, chat, reason)
       IN  /\ out' = r.out
           /\ nvim' = r.nvim
           /\ chat' = r.chat
           /\ olog' = [olog EXCEPT !.reasons = Append(@, reason),
                                   !.pc = IF r.raised THEN "escaped" ELSE "failed"]
  /\ UNCHANGED <<unit, jobVars, call, ui>>

\* startAssistantSpinner: one turn of the loop
SpinnerTick ==
  /\ out.spinner
  /\ olog.pc \in {"open", "caught"}
  /\ LET r == updateAssistantEntry(out, nvim, <<<<"Loading...">>>>)
     IN  out' = r.out /\ nvim' = r.nvim
  /\ UNCHANGED <<unit, jobVars, olog, chat, call, ui>>

\* the user wipes the destination buffer (`q` in the scratch window closes
\* it and bufhidden=wipe wipes the buffer; :bwipeout elsewhere)
BufWipe ==
  /\ olog.pc \in {"open", "caught"}
  /\ out.mode \in {"replace", "append", "scratch", "chat"}
  /\ nvim.valid
  /\ nvim' = [nvim EXCEPT !.valid = FALSE]
  /\ UNCHANGED <<unit, jobVars, out, olog, chat, call, ui>>

JobIdle ==
  /\ jobs = {}
  /\ job = [j \in JobIds |-> [status |-> None, aborted |-> FALSE]]
  /\ pc = [j \in JobIds |-> "new"]
  /\ run = [j \in JobIds |-> NewRun(FALSE)]
  /\ sess = [j \in JobIds |-> NewSession(None)]
  /\ cli = [j \in JobIds |-> NoCli]
  /\ ret = NoRet

\* an output session is requested while a chat is open
InitOutput ==
  /\ impl = "main"
  /\ JobIdle
  /\ OutputIdle
  /\ chat = startSession(InitialChatState, ChatSession(1, DefaultOpts))
  /\ call = [c \in Calls |-> NoCall]
  /\ ui = InitialUi

NextOutput ==
  \/ CreateSession \/ AppendText \/ FinalizeSession \/ StreamRaise
  \/ FailSession \/ SpinnerTick \/ BufWipe

SpecOutput == InitOutput /\ [][NextOutput]_vars

\* ------------------------------------------------------ the chat handlers
\* what the assistant answers
ReplyText == <<"o", NL, "k">>

\* (mutant) archiveChatSession without its early return: a session is
\* archived whatever its log holds
archiveChatSessionAlways(state, now) ==
  LET session == state.session
  IN  archiveSession(state,
        [id |-> session.id, template |-> session.template,
         provider |-> session.provider,
         followUpEnabled |-> session.followUpEnabled,
         createdAt |-> now, messages |-> session.messages,
         providerContext |-> session.providerContext])

\* archiveChatSession: nothing for an empty log, else the session wrapped
\* into an ArchivedChat and handed to archiveSession
archiveChatSession(state, now) ==
  LET session == state.session
  IN  IF Len(session.messages) = 0 THEN state
      ELSE archiveSession(state,
             [id |-> session.id, template |-> session.template,
              provider |-> session.provider,
              followUpEnabled |-> session.followUpEnabled,
              createdAt |-> now, messages |-> session.messages,
              providerContext |-> session.providerContext])

\* (mutant) closeChat that leaves the session in the store while it closes
\* the windows
closeChatSessionStays(state, now) ==
  IF ~HasSession(state) THEN state
  ELSE archiveChatSession(setStreaming(state, FALSE), now)

\* closeChat up to `await closeChatWindows`: the store is done with the
\* session before the handler suspends
closeChat(state, now) ==
  IF ~HasSession(state) THEN state
  ELSE endSession(archiveChatSession(setStreaming(state, FALSE), now))

\* the editor after closeChat: `new Date()` was read when an entry was made,
\* and closeChatWindows closed the windows, which wipes the session's buffers
\* (bufhidden=wipe)
AfterClose(u, state) ==
  IF ~HasSession(state) THEN u
  ELSE [u EXCEPT !.clock = IF Len(state.session.messages) > 0 THEN @ + 1 ELSE @,
                 !.bufs[state.session.id] = [buf |-> <<>>, valid |-> FALSE],
                 !.prompt = <<>>]

\* createChatSession: fresh prompt and response buffers, a fresh id
createChatSession(u, opts) ==
  [session |-> ChatSession(u.nextId, opts),
   ui |-> [u EXCEPT !.nextId = @ + 1,
                    !.bufs[u.nextId] = [buf |-> buildResponseBufferLines(opts),
                                        valid |-> TRUE],
                    !.prompt = <<>>]]

\* (mutant) the message is recorded whatever `record` says
appendMessageToChatRecorded(state, u, id, message, record) ==
  LET header == IF message.role = "user" THEN <<"## User">> ELSE <<"## Assistant">>
      lines == <<header>> \o SplitNL(message.content)
  IN  [chat |-> pushMessage(state, message),
       ui |-> [u EXCEPT !.bufs[id] = appendLinesToResponse(@, lines)]]

\* appendUserMessageToChat / appendAssistantMessageToChat: the lines under
\* the role's header; the store only learns of the message when record
appendMessageToChat(state, u, id, message, record) ==
  LET header == IF message.role = "user" THEN <<"## User">> ELSE <<"## Assistant">>
      lines == <<header>> \o SplitNL(message.content)
  IN  [chat |-> IF record THEN pushMessage(state, message) ELSE state,
       ui |-> [u EXCEPT !.bufs[id] = appendLinesToResponse(@, lines)]]

\* calls that are going to create a session
Creating ==
  Cardinality({c \in Calls : /\ call[c].op \in {"openChat", "loadChatLog", "chatResume"}
                             /\ call[c].pc \in {"resolve", "create"}})

\* chatOpen / chatLoad: the handler is called and suspends in
\* resolveSelectionLines (loadChatLogRecord)
openChat(c) ==
  /\ call[c] = NoCall
  /\ ui.nextId + Creating <= Cardinality(SessionIds)
  /\ \E op \in {"openChat", "loadChatLog"} :
       call' = [call EXCEPT ![c] = [op |-> op, pc |-> "resolve"]]
  /\ UNCHANGED <<unit, jobVars, outVars, chat, ui>>

\* ... `await closeChat(denops)`
openClose(c) ==
  /\ call[c].op \in {"openChat", "loadChatLog"}
  /\ call[c].pc = "resolve"
  /\ chat' = closeChat(chat, ui.clock)
  /\ ui' = AfterClose(ui, chat)
  /\ call' = [call EXCEPT ![c].pc = "create"]
  /\ UNCHANGED <<unit, jobVars, outVars>>

\* ... createChatSession resolves and the session is installed
openStart(c) ==
  /\ call[c].op \in {"openChat", "loadChatLog"}
  /\ call[c].pc = "create"
  /\ LET r == createChatSession(ui, DefaultOpts)
     IN  /\ chat' = setStreaming(startSession(chat, r.session), FALSE)
         /\ ui' = r.ui
  /\ call' = [call EXCEPT ![c] = NoCall]
  /\ UNCHANGED <<unit, jobVars, outVars>>

\* chatClose
chatClose ==
  /\ chat' = closeChat(chat, ui.clock)
  /\ HasSession(chat)
  /\ ui' = AfterClose(ui, chat)
  /\ UNCHANGED <<unit, jobVars, outVars, call>>

\* chatResume: the target is looked up, then `await deps.closeChat(denops)`
resumeChat(c) ==
  /\ call[c] = NoCall
  /\ ui.nextId + Creating <= Cardinality(SessionIds)
  /\ IF Len(chat.history) = 0
     THEN UNCHANGED <<chat, call, ui>>
     ELSE \E k \in 1..Len(chat.history) :
            /\ chat' = closeChat(chat, ui.clock)
            /\ ui' = AfterClose(ui, chat)
            /\ call' = [call EXCEPT ![c] =
                          [op |-> "chatResume", pc |-> "create",
                           target |-> chat.history[k], session |-> 0, done |-> 0]]
  /\ UNCHANGED <<unit, jobVars, outVars>>

\* ... the session is created and installed with the target's messages,
\* its buffers are reset
resumeStart(c) ==
  /\ call[c].op = "chatResume"
  /\ call[c].pc = "create"
  /\ LET target == call[c].target
         r == createChatSession(ui, ChatOpts(target.template, target.provider,
                                             target.followUpEnabled,
                                             target.providerContext))
     IN  /\ chat' = setMessages(startSession(chat, r.session), target.messages)
         /\ ui' = r.ui
         /\ call' = [call EXCEPT ![c].pc = "replay", ![c].session = r.session.id]
  /\ UNCHANGED <<unit, jobVars, outVars>>

\* ... one message of the target is replayed (record = false); the handler
\* returns after the last one
resumeReplay(c) ==
  /\ call[c].op = "chatResume"
  /\ call[c].pc = "replay"
  /\ LET target == call[c].target
         r == appendMessageToChat(chat, ui, call[c].session,
                                  target.messages[call[c].done + 1], FALSE)
     IN  /\ chat' = r.chat
         /\ IF call[c].done + 1 < Len(target.messages)
            THEN /\ ui' = r.ui
                 /\ call' = [call EXCEPT ![c].done = @ + 1]
            ELSE /\ ui' = r.ui
                 /\ call' = [call EXCEPT ![c] = NoCall]
  /\ UNCHANGED <<unit, jobVars, outVars>>

\* the user types into the prompt buffer
TypePrompt ==
  /\ HasSession(chat)
  /\ ui.prompt = <<>>
  /\ ui' = [ui EXCEPT !.prompt = PromptText]
  /\ UNCHANGED <<unit, jobVars, outVars, chat, call>>

\* chatSubmit: handleChatSubmit up to its first await; main.ts looks at the
\* session and its streaming flag first, part_017 calls submitChat at once
handleChatSubmit(c) ==
  /\ call[c] = NoCall
  /\ ui.job # "pending"
  /\ HasSession(chat) => Len(chat.session.messages) < MaxMessages
  /\ LET returns(value, warning) ==
           /\ ui' = [ui EXCEPT !.last = [ret |-> value, warning |-> warning]]
           /\ UNCHANGED call
         suspends ==
           /\ call' = [call EXCEPT ![c] = [op |-> "chatSubmit", pc |-> "read",
                                           session |-> chat.session.id]]
           /\ UNCHANGED ui
     IN  IF impl = "main"
         THEN IF ~HasSession(chat) THEN returns("throw", FALSE)
              ELSE IF chat.session.streaming THEN returns("null", TRUE)
              ELSE suspends
         ELSE IF ~HasSession(chat) THEN returns("null", FALSE)
              ELSE suspends
  /\ UNCHANGED <<unit, jobVars, outVars, chat>>

\* ... submitChat read the prompt buffer: nothing to send, or the buffer is
\* emptied and the text returned (part_017 reads the session only now)
submitChat(c) ==
  /\ call[c].op = "chatSubmit"
  /\ call[c].pc = "read"
  /\ IF Len(ui.prompt) = 0
     THEN /\ ui' = [ui EXCEPT !.last = [ret |-> "null", warning |-> FALSE]]
          /\ call' = [call EXCEPT ![c] = NoCall]
     ELSE IF impl # "main" /\ ~HasSession(chat)
     THEN /\ ui' = [ui EXCEPT !.prompt = <<>>,
                              !.last = [ret |-> "throw", warning |-> FALSE]]
          /\ call' = [call EXCEPT ![c] = NoCall]
     ELSE /\ ui' = [ui EXCEPT !.prompt = <<>>]
          /\ call' = [call EXCEPT ![c].pc = "log",
                                  ![c].session = IF impl = "main" THEN @
                                                 ELSE chat.session.id]
  /\ UNCHANGED <<unit, jobVars, outVars, chat>>

\* ... appendUserMessageToChat, then handleApplyRequest starts the job and
\* returns its summary
submitLog(c) ==
  /\ call[c].op = "chatSubmit"
  /\ call[c].pc = "log"
  /\ LET r == appendMessageToChat(chat, ui, call[c].session,
                                  ChatMessage("user", PromptText), TRUE)
     IN  /\ chat' = r.chat
         /\ ui' = [r.ui EXCEPT !.job = "pending",
                               !.last = [ret |-> "job", warning |-> FALSE]]
  /\ call' = [call EXCEPT ![c] = NoCall]
  /\ UNCHANGED <<unit, jobVars, outVars>>

\* the job reaches createSessionForOutput: a chat is opened when none is
\* active, the prompt is logged unless it is the last message, and
\* createChatOutputSession raises the streaming flag
ChatStreamBegin ==
  /\ ui.job = "pending"
  /\ HasSession(chat) \/ ui.nextId + Creating <= Cardinality(SessionIds)
  /\ LET o == IF HasSession(chat) THEN [chat |-> chat, ui |-> ui]
              ELSE LET r == createChatSession(ui, DefaultOpts)
                   IN  [chat |-> setStreaming(startSession(chat, r.session), FALSE),
                        ui |-> r.ui]
         ms == o.chat.session.messages
         logged == /\ Len(ms) > 0
                   /\ ms[Len(ms)] = ChatMessage("user", PromptText)
         l == IF logged THEN o
              ELSE appendMessageToChat(o.chat, o.ui, o.chat.session.id,
                                       ChatMessage("user", PromptText), TRUE)
     IN  /\ chat' = setStreaming(l.chat, TRUE)
         /\ ui' = [l.ui EXCEPT !.job = "streaming"]
  /\ UNCHANGED <<unit, jobVars, outVars, call>>

\* the job ends: finalize logs the answer, fail does not; both lower the
\* streaming flag of whatever session is active
ChatStreamEnd ==
  /\ ui.job = "streaming"
  /\ \E ok \in BOOLEAN :
       chat' = setStreaming(IF ok THEN pushMessage(chat, ChatMessage("assistant", ReplyText))
                            ELSE chat, FALSE)
  /\ ui' = [ui EXCEPT !.job = None]
  /\ UNCHANGED <<unit, jobVars, outVars, call>>

InitChat ==
  /\ impl \in {"main", "part_017"}
  /\ JobIdle
  /\ OutputIdle
  /\ ChatIdle

NextChat ==
  \/ \E c \in Calls :
       \/ openChat(c) \/ openClose(c) \/ openStart(c)
       \/ resumeChat(c) \/ resumeStart(c) \/ resumeReplay(c)
       \/ handleChatSubmit(c) \/ submitChat(c) \/ submitLog(c)
  \/ chatClose \/ TypePrompt \/ ChatStreamBegin \/ ChatStreamEnd

SpecChat == InitChat /\ [][NextChat]_vars

\* ------------------------------------------- a history that is filling up
\* the i-th newest of the chats archived before: one user message each
PastChat(i) ==
  [id |-> 0 - i, template |-> DefaultOpts.template,
   provider |-> DefaultOpts.provider,
   followUpEnabled |-> DefaultOpts.follow_up,
   createdAt |-> 0 - i, messages |-> <<ChatMessage("user", PromptText)>>,
   providerContext |-> DefaultOpts.provider_context]

\* no chat is open; between none and HISTORY_LIMIT chats were archived
InitHistory ==
  /\ impl = "main"
  /\ JobIdle
  /\ OutputIdle
  /\ \E k \in 0..HISTORY_LIMIT :
       chat = [session |-> NoSession, history |-> [i \in 1..k |-> PastChat(i)]]
  /\ call = [c \in Calls |-> NoCall]
  /\ ui = InitialUi

\* the handlers called one after the other
NextHistory ==
  \/ openChat(1) \/ openClose(1) \/ openStart(1)
  \/ resumeChat(1) \/ resumeStart(1) \/ resumeReplay(1)
  \/ handleChatSubmit(1) \/ submitChat(1) \/ submitLog(1)
  \/ chatClose \/ TypePrompt \/ ChatStreamBegin \/ ChatStreamEnd

SpecHistory == InitHistory /\ [][NextHistory]_vars

\* ------------------------------------------------- resuming an archived chat
\* the message logs of the archived chats: both roles, either first, a
\* content of several lines, a content that ends in a newline
MessageLogs ==
  LET hi == ChatMessage("user", PromptText)
      ok == ChatMessage("assistant", ReplyText)
      nl == ChatMessage("user", <<"a", NL>>)
  IN  {<<hi>>, <<hi, ok>>, <<ok, nl>>, <<hi, ok, hi>>}

\* one or two chats were archived; a chat with one message may be open
InitResume ==
  /\ impl = "main"
  /\ JobIdle
  /\ OutputIdle
  /\ call = [c \in Calls |-> NoCall]
  /\ \E k \in {1, 2}, open \in BOOLEAN :
       \E logs \in [1..k -> MessageLogs] :
         LET history == [i \in 1..k |-> [PastChat(i) EXCEPT !.messages = logs[i]]]
             r == createChatSession(InitialUi, DefaultOpts)
             o == appendMessageToChat(
                    startSession([InitialChatState EXCEPT !.history = history], r.session),
                    r.ui, r.session.id, ChatMessage("user", PromptText), TRUE)
         IN  IF open THEN chat = o.chat /\ ui = o.ui
             ELSE /\ chat = [InitialChatState EXCEPT !.history = history]
                  /\ ui = InitialUi

\* chatResume, with nothing else going on
NextResume == resumeChat(1) \/ resumeStart(1) \/ resumeReplay(1)

SpecResume == InitResume /\ [][NextResume]_vars

\* ------------------------------------------- the provider's continuation
\* the contexts a CLI provider's hooks report, whole or in part
Contexts ==
  LET ids == [thread_id |-> {"t1", "t2"}, session_id |-> {"s1", "s2"}]
  IN  UNION {{[provider |-> p],
              [provider |-> p, thread_id |-> t],
              [provider |-> p, session_id |-> i],
              [provider |-> p, thread_id |-> t, session_id |-> i]} :
              p \in CliProviders, t \in ids.thread_id, i \in ids.session_id}

\* no chat, or a chat of any provider (or none) with any context (or none)
InitContext ==
  /\ impl = "main"
  /\ JobIdle
  /\ OutputIdle
  /\ call = [c \in Calls |-> NoCall]
  /\ ui = InitialUi
  /\ \/ chat = InitialChatState
     \/ \E provider \in CliProviders \cup {None}, context \in Contexts \cup {NoContext} :
          chat = startSession(InitialChatState,
                              ChatSession(1, ChatOpts("tmpl", provider, TRUE, context)))

\* updateProviderContext(context): a hook of the CLI provider, or a caller
\* with null, dispatches setProviderContext
updateProviderContext ==
  /\ \E payload \in Contexts \cup {NoContext} :
       /\ chat' = setProviderContext(chat, payload)
       /\ unit' = [of |-> "setProviderContext", payload |-> payload,
                   before |-> chat]
  /\ UNCHANGED <<jobVars, outVars, call, ui>>

SpecContext == InitContext /\ [][updateProviderContext]_vars

\* ------------------------------------------------- chat/log.ts (chat logs)
\* readBufferText: the buffer's lines joined, white space at the end dropped
readBufferText(lines) == trimEnd(JoinNL(lines))

\* the ChatLogRecord saveChatLog builds, as JSON.stringify writes it and
\* JSON.parse reads it: a field that is undefined is not in the file
\* (followups and created_at are left out of the model)
ChatLogRecord(session, u) ==
  LET fields == {"id", "template", "follow_up_enabled", "prompt_text", "response_text"}
                  \cup (IF session.provider # None THEN {"provider"} ELSE {})
                  \cup (IF session.providerContext # NoContext
                        THEN {"provider_context"} ELSE {})
      record == [id |-> session.id, template |-> session.template,
                 provider |-> session.provider,
                 follow_up_enabled |-> session.followUpEnabled,
                 prompt_text |-> readBufferText(<<u.prompt>>),
                 response_text |-> readBufferText(u.bufs[session.id].buf),
                 provider_context |-> session.providerContext]
  IN  [f \in fields |-> record[f]]

\* a chat is open: of any provider or none, follow-ups on or off, with a
\* continuation or none, and with none or some messages exchanged
RECURSIVE Exchanged(_, _)
Exchanged(o, ms) ==
  IF ms = <<>> THEN o
  ELSE Exchanged(appendMessageToChat(o.chat, o.ui, o.chat.session.id, Head(ms), TRUE),
                 Tail(ms))

InitLog ==
  /\ impl = "main"
  /\ JobIdle
  /\ OutputIdle
  /\ call = [c \in Calls |-> NoCall]
  /\ \E provider \in CliProviders \cup {None}, followUp \in BOOLEAN,
        known \in BOOLEAN, ms \in MessageLogs \cup {<<>>} :
       LET context == IF known /\ provider # None
                      THEN [provider |-> provider, thread_id |-> "t1"]
                      ELSE NoContext
           r == createChatSession(InitialUi, ChatOpts("tmpl", provider, followUp, context))
           o == Exchanged([chat |-> startSession(InitialChatState, r.session),
                           ui |-> r.ui], ms)
       IN  chat = o.chat /\ ui = o.ui

\* chatSave: saveChatLog writes the record of the active session (it raises
\* when there is none); the unit is the file, and the session it was taken of
saveChatLog ==
  /\ HasSession(chat)
  /\ unit' = [of |-> "saved", record |-> ChatLogRecord(chat.session, ui),
              session |-> chat.session]
  /\ UNCHANGED <<jobVars, outVars, chat, call, ui>>

\* chatLoad: loadChatLog reads the record, closes the chat that is open,
\* creates a session from the record and installs it
loadChatLog ==
  /\ unit.of = "saved"
  /\ ui.nextId \in SessionIds
  /\ LET record == unit.record
         opts == [template |-> record.template,
                  provider |-> IF "provider" \in DOMAIN record
                               THEN record.provider ELSE None,
                  follow_up |-> record.follow_up_enabled,
                  provider_context |-> IF "provider_context" \in DOMAIN record
                                       THEN record.provider_context ELSE NoContext,
                  selection_lines |-> SplitNL(record.prompt_text),
                  initial_response_lines |-> SplitNL(record.response_text)]
         r == createChatSession(AfterClose(ui, chat), opts)
     IN  /\ chat' = startSession(closeChat(chat, ui.clock), r.session)
         /\ ui' = r.ui
  /\ unit' = [unit EXCEPT !.of = "loaded"]
  /\ UNCHANGED <<jobVars, outVars, call>>

NextLog == saveChatLog \/ loadChatLog \/ TypePrompt

SpecLog == InitLog /\ [][NextLog]_vars

\* ------------------------------------------ chat/followup.ts (follow-ups)
\* a JavaScript number: NaN, or a finite number held in tenths (25 is 2.5)
NaN == [nan |-> TRUE]
Num(n) == [tenths |-> 10 * n]

\* clampKey: Math.max(1, Math.min(4, Math.trunc(value))); each of the three
\* returns NaN when given NaN
clampKey(value) ==
  LET isNaN(x) == "nan" \in DOMAIN x
      trunc(x) == IF isNaN(x) THEN NaN
                  ELSE IF x.tenths >= 0 THEN Num(x.tenths \div 10)
                  ELSE Num(-((-x.tenths) \div 10))
      min(x, y) == IF isNaN(x) \/ isNaN(y) THEN NaN
                   ELSE IF x.tenths <= y.tenths THEN x ELSE y
      max(x, y) == IF isNaN(x) \/ isNaN(y) THEN NaN
                   ELSE IF x.tenths >= y.tenths THEN x ELSE y
  IN  max(Num(1), min(Num(4), trunc(value)))

\* String.prototype.trim(): the white space at both ends is dropped
trim(t) ==
  LET RECURSIVE trimStart(_)
      trimStart(u) == IF Len(u) > 0 /\ Head(u) \in {Space, NL, CR}
                      THEN trimStart(Tail(u)) ELSE u
  IN  trimStart(trimEnd(t))

\* isFollowUpInput: an object whose text is a string and whose key, when it
\* has one, is a number (typeof "number": NaN is one)
isFollowUpInput(entry) ==
  /\ "text" \in DOMAIN entry
  /\ "key" \in DOMAIN entry => DOMAIN entry.key \subseteq {"nan", "tenths"}

\* (mutant) entries without a key are counted by themselves, from 1
RECURSIVE normalizeFollowUpsKeyless(_, _, _)
normalizeFollowUpsKeyless(entries, normalized, keyless) ==
  IF entries = <<>> \/ Len(normalized) >= 4 THEN normalized
  ELSE LET entry == Head(entries)
       IN  IF ~isFollowUpInput(entry) \/ Len(trim(entry.text)) = 0
           THEN normalizeFollowUpsKeyless(Tail(entries), normalized, keyless)
           ELSE IF "key" \in DOMAIN entry
           THEN normalizeFollowUpsKeyless(
                  Tail(entries),
                  Append(normalized, [key |-> clampKey(entry.key), text |-> trim(entry.text)]),
                  keyless)
           ELSE normalizeFollowUpsKeyless(
                  Tail(entries),
                  Append(normalized, [key |-> clampKey(Num(keyless + 1)),
                                      text |-> trim(entry.text)]),
                  keyless + 1)

\* the loop of normalizeFollowUps over the entries left, `normalized` being
\* what was pushed so far
RECURSIVE normalizeEntries(_, _)
normalizeEntries(entries, normalized) ==
  IF entries = <<>> \/ Len(normalized) >= 4 THEN normalized
  ELSE LET entry == Head(entries)
       IN  IF ~isFollowUpInput(entry) THEN normalizeEntries(Tail(entries), normalized)
           ELSE IF Len(trim(entry.text)) = 0
           THEN normalizeEntries(Tail(entries), normalized)
           ELSE LET key == clampKey(IF "key" \in DOMAIN entry THEN entry.key
                                    ELSE Num(Len(normalized) + 1))
                IN  normalizeEntries(Tail(entries),
                                     Append(normalized, [key |-> key, text |-> trim(entry.text)]))

\* (mutant) see normalizeFollowUpsKeyless
normalizeFollowUpsSequential(payload) ==
  IF ~payload.array THEN <<>> ELSE normalizeFollowUpsKeyless(payload.items, <<>>, 0)

\* normalizeFollowUps(payload): [] unless the payload is an array
normalizeFollowUps(payload) ==
  IF ~payload.array THEN <<>> ELSE normalizeEntries(payload.items, <<>>)

\* the payloads of chatSetFollowUps: the two arrays of the tests, every array
\* of up to MaxEntries values (entries with and without a key, keys beyond
\* 4, below 1, with a fraction, NaN, of the wrong type, texts of white space,
\* a value that is no object), and a payload that is no array
MaxEntries == 5
FollowUpPayloads ==
  LET keyless(t) == [text |-> t]
      keyed(k, t) == [key |-> k, text |-> t]
      values == {keyed(Num(5), <<Space, "A", Space>>), keyed(Num(0), <<"B">>),
                 keyed([tenths |-> 25], <<"C">>), keyed(NaN, <<"D">>),
                 keyed([string |-> "2"], <<"E">>),
                 keyless(<<"B">>), keyless(<<Space>>), [string |-> "F"]}
      tested == {<<keyed(Num(5), <<Space, "A", Space>>), keyed(Num(0), <<>>),
                   keyless(<<"B">>), keyless(<<"C">>), keyless(<<"D">>), keyless(<<"E">>)>>,
                 <<keyed(Num(5), <<"A">>), keyed(Num(0), <<"B">>), keyless(<<>>),
                   keyless(<<Space, "C", Space>>), keyed(Num(2), <<"D">>),
                   keyed(Num(3), <<"E">>)>>}
  IN  {[array |-> FALSE]}
        \cup {[array |-> TRUE, items |-> items] :
                items \in tested \cup UNION {[1..n -> values] : n \in 0..MaxEntries}}

\* nothing is going on, and no function was exercised yet
InitIdle ==
  /\ impl = "main"
  /\ JobIdle
  /\ OutputIdle
  /\ ChatIdle

\* setFollowUps(payload): the payload is normalised
setFollowUps ==
  /\ unit = NoUnit
  /\ \E payload \in FollowUpPayloads :
       unit' = [of |-> "normalizeFollowUps", payload |-> payload,
                result |-> normalizeFollowUps(payload)]
  /\ UNCHANGED <<jobVars, outVars, chatVars>>

SpecFollowUps == InitIdle /\ [][setFollowUps]_vars

\* ----------------------------- core/stream_buffer.ts (the accumulator)
\* longest sequence of calls made on one accumulator
MaxCalls == 4
\* the texts appended: none, one without a newline, a newline by itself,
\* one with a newline inside
BufferTexts == {<<>>, <<"a">>, <<NL>>, <<"b", NL, "c">>}

\* createStreamingBuffer(): `lines` is the closure's array; `held` is the
\* array the caller was last returned (<<>>: none yet) and `shared` says it
\* is the very array `lines` names; `since` is what was appended since the
\* last clear; `last` is the last call, its argument and what it returned
createStreamingBuffer ==
  /\ unit = NoUnit
  /\ unit' = [of |-> "StreamingBuffer", lines |-> EmptyBuffer, held |-> <<>>,
              shared |-> FALSE, since |-> <<>>, calls |-> 0,
              last |-> [op |-> "createStreamingBuffer", arg |-> <<>>, ret |-> <<>>]]
  /\ UNCHANGED <<jobVars, outVars, chatVars>>

\* a call of a method: counted, and remembered with what it returned
Called(op, arg, value) ==
  [unit EXCEPT !.calls = @ + 1, !.last = [op |-> op, arg |-> arg, ret |-> value]]
Callable ==
  /\ unit.of = "StreamingBuffer"
  /\ unit.calls < MaxCalls
  /\ UNCHANGED <<jobVars, outVars, chatVars>>

\* append(text): `lines` is changed in place and a copy is returned
append ==
  /\ Callable
  /\ \E text \in BufferTexts :
       LET lines == BufferAppend(unit.lines, text)
       IN  unit' = [Called("append", text, lines) EXCEPT
                      !.lines = lines, !.held = lines, !.shared = FALSE,
                      !.since = @ \o text]

\* (mutant) getLines that returns `lines` itself
getLinesItself ==
  /\ Callable
  /\ unit' = [Called("getLines", <<>>, unit.lines) EXCEPT
                 !.held = unit.lines, !.shared = TRUE]

\* getLines(): a copy of `lines`
getLines ==
  /\ Callable
  /\ unit' = [Called("getLines", <<>>, unit.lines) EXCEPT
                 !.held = unit.lines, !.shared = FALSE]

\* clear(): `lines` names a new array
clear ==
  /\ Callable
  /\ unit' = [Called("clear", <<>>, <<>>) EXCEPT
                 !.lines = EmptyBuffer, !.shared = FALSE, !.since = <<>>]

\* (mutant) drainText that does not clear
drainTextKeeps ==
  /\ Callable
  /\ unit' = Called("drainText", <<>>, JoinNL(unit.lines))

\* drainText(): the lines joined, and clear()
drainText ==
  /\ Callable
  /\ unit' = [Called("drainText", <<>>, JoinNL(unit.lines)) EXCEPT
                 !.lines = EmptyBuffer, !.shared = FALSE, !.since = <<>>]

\* the caller changes the array it was returned (push): the accumulator's
\* array changes with it when it is the same array
push ==
  /\ Callable
  /\ unit.held # <<>>
  /\ unit' = [Called("push", <<"x">>, <<>>) EXCEPT
                 !.held = Append(@, <<"x">>),
                 !.lines = IF unit.shared THEN Append(@, <<"x">>) ELSE @]

NextBuffer ==
  createStreamingBuffer \/ append \/ getLines \/ clear \/ drainText \/ push

SpecBuffer == InitIdle /\ [][NextBuffer]_vars

\* ------------------------------------- providers/cli.ts (the CLI's stdout)
\* JSON.parse(line) for the lines the model's CLI prints: an event of codex,
\* a number, or a SyntaxError
AgentMessageLine ==
  <<"{", "\"type\":\"item.completed\",\"item\":{\"type\":\"agent_message\",\"text\":\"ok\"}", "}">>
SyntaxError == [name |-> "SyntaxError"]
JSONParse(line) ==
  IF line = AgentMessageLine
  THEN [type |-> "item.completed", item |-> [type |-> "agent_message", text |-> <<"o", "k">>]]
  ELSE IF line = <<"1">> THEN [number |-> 1]
  ELSE SyntaxError

\* mapCodexEvent / mapClaudeResult, for the payloads JSONParse returns: the
\* agent's message is text for codex; what is no event of the provider is
\* null
mapEvent(provider, payload) ==
  IF "type" \notin DOMAIN payload THEN NoChunk
  ELSE IF provider = "codex-cli"
  THEN IF payload.type = "item.completed" /\ payload.item.type = "agent_message"
          /\ Len(payload.item.text) > 0
       THEN [text_delta |-> payload.item.text]
       ELSE [raw |-> payload]
  ELSE IF payload.type # "result" THEN NoChunk
  ELSE [done |-> TRUE, raw |-> payload]

\* (mutant) a line that does not parse is dropped
consumeCliLineDrops(line, provider) ==
  IF JSONParse(line) = SyntaxError THEN NoChunk
  ELSE mapEvent(provider, JSONParse(line))

\* consumeCliLine: a line that does not parse is text
consumeCliLine(line, provider) ==
  IF JSONParse(line) = SyntaxError THEN [text_delta |-> line]
  ELSE mapEvent(provider, JSONParse(line))

\* the lines a CLI prints: text, text with white space around it, a JSON
\* document cut short, nothing, white space, an event, a JSON number
MaxLines == 3
StdoutLines ==
  {<<"h", "i">>, <<Space, "w", Space>>, <<"{", "h">>, <<>>, <<Space>>,
   AgentMessageLine, <<"1">>}

\* executeCliProvider spawns the CLI: its stdout is up to MaxLines lines,
\* the last with or without its newline, read in one or two pieces
spawn ==
  /\ unit = NoUnit
  /\ \E provider \in CliProviders, n \in 1..MaxLines, ended \in BOOLEAN :
       \E ls \in [1..n -> StdoutLines] :
         LET text == JoinNL(ls) \o (IF ended THEN <<NL>> ELSE <<>>)
         IN  \E k \in 0..Len(text) :
               unit' = [of |-> "executeCliProvider", provider |-> provider,
                        stdout |-> text,
                        reads |-> IF k = 0 THEN <<text>>
                                  ELSE <<SubSeq(text, 1, k), SubSeq(text, k + 1, Len(text))>>,
                        buffer |-> <<>>, line |-> 0, yielded |-> <<>>, done |-> FALSE]
  /\ UNCHANGED <<jobVars, outVars, chatVars>>

\* the lines in the buffer are consumed: each is trimmed, skipped when
\* empty, and its chunk, if any, is yielded (with the number of the line it
\* came from)
RECURSIVE consumeLines(_)
consumeLines(u) ==
  IF \A i \in 1..Len(u.buffer) : u.buffer[i] # NL THEN u
  ELSE LET index == CHOOSE i \in 1..Len(u.buffer) :
                      u.buffer[i] = NL /\ \A m \in 1..(i - 1) : u.buffer[m] # NL
           line == trim(SubSeq(u.buffer, 1, index - 1))
           chunk == consumeCliLine(line, u.provider)
       IN  consumeLines(
             [u EXCEPT !.buffer = SubSeq(@, index + 1, Len(@)),
                       !.line = @ + 1,
                       !.yielded = IF Len(line) = 0 \/ chunk = NoChunk THEN @
                                   ELSE Append(@, [chunk |-> chunk, line |-> u.line + 1])])

\* reader.read() resolves with a piece of the stdout
read ==
  /\ unit.of = "executeCliProvider"
  /\ unit.reads # <<>>
  /\ unit' = consumeLines([unit EXCEPT !.buffer = @ \o Head(unit.reads),
                                       !.reads = Tail(@)])
  /\ UNCHANGED <<jobVars, outVars, chatVars>>

\* reader.read() resolves with done: what is left in the buffer is a line
readDone ==
  /\ unit.of = "executeCliProvider"
  /\ unit.reads = <<>>
  /\ ~unit.done
  /\ LET line == trim(unit.buffer)
         chunk == consumeCliLine(line, unit.provider)
     IN  unit' = [unit EXCEPT !.done = TRUE,
                              !.yielded = IF Len(line) = 0 \/ chunk = NoChunk THEN @
                                          ELSE Append(@, [chunk |-> chunk,
                                                          line |-> unit.line + 1])]
  /\ UNCHANGED <<jobVars, outVars, chatVars>>

NextCliLines == spawn \/ read \/ readDone

SpecCliLines == InitIdle /\ [][NextCliLines]_vars

\* ------------------------------------ main.ts (the CLI's argument vector)
\* JSON.stringify(payload) of the turn's payload
PayloadJson == "{\"prompt\":\"hi\",\"chat_history\":[]}"

\* applyProviderContextToArgs: claude's --resume, for a context of the
\* provider that is run
applyProviderContextToArgs(provider, baseArgs, context) ==
  IF context = NoContext \/ context.provider # provider THEN baseArgs
  ELSE IF provider = "claude-cli" /\ "session_id" \in DOMAIN context
  THEN baseArgs \o <<"--resume", context.session_id>>
  ELSE baseArgs

\* buildCliIterator: the arguments and the payload executeCliProvider is
\* called with, for a provider definition's cli_args and the output mode;
\* the chat's context is looked at for a chat turn only
buildCliIterator ==
  /\ unit = NoUnit
  /\ \E provider \in CliProviders, mode \in {"chat", "replace"},
        cli_args \in {<<>>, <<"--timeout", "30">>} :
       LET chatContext == IF mode = "chat" /\ HasSession(chat)
                          THEN chat.session.providerContext ELSE NoContext
           finalArgs == applyProviderContextToArgs(provider, cli_args, chatContext)
           resumes == provider = "codex-cli" /\ "thread_id" \in DOMAIN chatContext
       IN  unit' = [of |-> "buildCliIterator", provider |-> provider, out |-> mode,
                    cli_args |-> cli_args, context |-> chatContext,
                    args |-> IF resumes
                             THEN <<"exec", "--json", PayloadJson, "resume",
                                    chatContext.thread_id>>
                             ELSE finalArgs,
                    stdin |-> IF resumes THEN <<>> ELSE <<PayloadJson, NL>>]
  /\ UNCHANGED <<jobVars, outVars, chatVars>>

SpecCliArgs == InitContext /\ [][buildCliIterator]_vars

\* ================================================================ claims
Done(j) == pc[j] = "done"
\* the chunk carries a text_delta that is not the empty string
CarriesText(c) == "text_delta" \in DOMAIN c /\ c.text_delta # <<>>
\* the non-empty text deltas of a chunk sequence, in order
RECURSIVE DeltasOf(_)
DeltasOf(cs) ==
  IF cs = <<>> THEN <<>>
  ELSE (IF CarriesText(Head(cs)) THEN <<Head(cs).text_delta>> ELSE <<>>)
       \o DeltasOf(Tail(cs))
AbortSignal(j) == [cause |-> "abort", sig |-> cliStopSignal(cli[j].provider)]
TimeoutSignal(j) == [cause |-> "timeout", sig |-> cliStopSignal(cli[j].provider)]

\* C1: once the runner of a job has returned, the job's status is terminal
\* and its id is no longer in the registry.
C1_NoOrphanAfterRunner ==
  \A j \in JobIds : Done(j) => job[j].status \in Terminal /\ j \notin jobs

\* C2: a chunk sequence exhausted without a raise, followed by a finalize
\* that does not raise, gives exactly one finalize call, no fail call and
\* the final status applied; a replace session has then written its
\* destination exactly once, with the lines of the full text.
C2_ExhaustedIsApplied ==
  \A j \in JobIds :
    (Done(j) /\ run[j].ended = "exhausted" /\ run[j].err = None) =>
      /\ sess[j].finalized = 1
      /\ sess[j].failed = <<>>
      /\ run[j].final = "applied"
      /\ sess[j].mode = "replace" =>
           sess[j].writes = <<splitText(Concat(DeltasOf(run[j].stream)))>>

C2_Witness ==
  \E j \in JobIds :
    /\ Done(j) /\ run[j].ended = "exhausted" /\ run[j].err = None
    /\ sess[j].mode = "replace"
    /\ Len(DeltasOf(run[j].stream)) = 2
    /\ Len(sess[j].writes[1]) = 2

\* C3: the texts handed to session.append are the non-empty text deltas of
\* the chunks yielded so far, in the order of the chunks, and a chunk is
\* pulled only when every earlier append has completed (the session's
\* accumulator then holds all of them).
C3_AppendsInArrivalOrder ==
  /\ [](\A j \in JobIds : sess[j].appended = DeltasOf(run[j].stream))
  /\ [][\A j \in JobIds :
          run'[j].stream # run[j].stream =>
            /\ pc[j] = "pull"
            /\ JoinNL(sess[j].lines) = Concat(sess[j].appended)]_vars

C3_Witness ==
  \E j \in JobIds :
    /\ Len(run[j].stream) = 2
    /\ ~CarriesText(run[j].stream[1])
    /\ CarriesText(run[j].stream[2])
    /\ sess[j].appended = <<run[j].stream[2].text_delta>>
    /\ sess[j].mode = "scratch"
    /\ pc[j] = "pull"

\* C4: a chunk sequence that raises while the handle is already tripped ends
\* with status stopped, exactly one fail call with "Job stopped", no
\* finalize call, and the job out of the registry.
C4_RaiseWhenTrippedIsStopped ==
  \A j \in JobIds :
    (Done(j) /\ run[j].ended = "raised" /\ run[j].tripped) =>
      /\ run[j].final = "stopped"
      /\ sess[j].failed = <<StringReason(MsgJobStopped)>>
      /\ sess[j].finalized = 0
      /\ j \notin jobs

\* C5: a chunk sequence that raises while the handle is not tripped ends
\* with exactly one fail call carrying the raised error, no finalize call
\* and the final status error.
C5_RaiseWhenNotTrippedIsError ==
  \A j \in JobIds :
    (Done(j) /\ run[j].ended = "raised" /\ ~run[j].tripped) =>
      /\ sess[j].failed = <<ErrorReason(run[j].err)>>
      /\ sess[j].finalized = 0
      /\ run[j].final = "error"

C7_StopIsIdempotent ==
  [][\A j \in JobIds :
       (StopJob(j) /\ (job[j].status = "stopped"
                       \/ (Done(j) /\ job[j].status \in {"applied", "error"}))) =>
         /\ \A k \in JobIds : job'[k].status = job[k].status
         /\ sess' = sess]_vars

\* C8: updateJobStatus and stopJob on an id that is not in the registry
\* return false and change neither the registry nor any job; an id that was
\* removed from the registry is never in it again.
C8_UnknownIdIsNoOp ==
  [][\A id \in AllIds :
       id \notin jobs =>
         /\ (StopJob(id) \/ UpdateJobStatus(id)) =>
              (ret'.ok = FALSE /\ jobs' = jobs /\ job' = job)
         /\ id \notin jobs' \/ (id \in JobIds /\ pc[id] = "new")]_vars

C8_Witness ==
  \E j \in JobIds :
    /\ pc[j] # "new"
    /\ j \notin jobs
    /\ ret = [op |-> "stopJob", id |-> j, ok |-> FALSE]

C10_CallbackRaiseIsIsolated ==
  /\ [][\A j \in JobIds : Callback(j) => sess' = sess]_vars
  /\ [](\A j \in JobIds :
          (Done(j) /\ run[j].cbRaised) =>
            /\ sess[j].failed = <<>>
            /\ sess[j].finalized = 1
            /\ run[j].final = "applied")

C10_Witness ==
  \E j \in JobIds :
    /\ Done(j) /\ run[j].cbRaised
    /\ Len(sess[j].writes) > 0
    /\ run[j].final = "applied"

\* the usage_partial records of a chunk sequence, in order
RECURSIVE PartialsOf(_)
PartialsOf(cs) ==
  IF cs = <<>> THEN <<>>
  ELSE (IF "usage_partial" \in DOMAIN Head(cs) THEN <<Head(cs).usage_partial>> ELSE <<>>)
       \o PartialsOf(Tail(cs))
\* the positions of the partials that carry field f
Carrying(ps, f) == {i \in 1..Len(ps) : f \in DOMAIN ps[i]}
Max(S) == CHOOSE m \in S : \A n \in S : n <= m
\* field `to` of usage is the value the last partial carrying `from` gave,
\* and is undefined when no partial carried it
LastWins(usage, ps, from, to) ==
  IF Carrying(ps, from) = {} THEN to \notin DOMAIN usage
  ELSE to \in DOMAIN usage /\ usage[to] = ps[Max(Carrying(ps, from))][from]

\* C11: the usage record the completion callback is handed holds, for input
\* and for output, the value of the last usage_partial that carried the
\* field (undefined when none did); values are never summed.
C11_UsageLastNonNullWins ==
  \A j \in JobIds :
    pc[j] = "callback" =>
      /\ LastWins(run[j].usage, PartialsOf(run[j].stream), "input", "input_tokens")
      /\ LastWins(run[j].usage, PartialsOf(run[j].stream), "output", "output_tokens")

C11_Witness ==
  \E j \in JobIds :
    /\ pc[j] = "callback"
    /\ Len(run[j].stream) = 2
    /\ run[j].stream[1] = [usage_partial |-> [input |-> 1, output |-> 2]]
    /\ run[j].stream[2] = [usage_partial |-> [input |-> 2]]
    /\ run[j].usage = [input_tokens |-> 2, output_tokens |-> 2]


\* the text of a buffer: its lines joined by line breaks
Flat(buf) == JoinNL(buf)
\* the number of characters of Flat(buf) before column col (0-based) of
\* row `row` (0-based)
RECURSIVE Offset(_, _, _)
Offset(buf, row, col) ==
  IF row = 0 THEN col ELSE Len(buf[1]) + 1 + Offset(Tail(buf), row - 1, col)
IsSuffix(s, t) == Len(s) <= Len(t) /\ SubSeq(t, Len(t) - Len(s) + 1, Len(t)) = s
\* everything handed to append so far, as one text
Streamed == Concat(olog.appended)
LastReason == olog.reasons[Len(olog.reasons)]
\* the text a reason is shown as
Shown(reason) ==
  CASE reason.kind = "error" -> reason.msg
    [] reason.kind = "string" -> reason.msg
    [] OTHER -> "{\"code\":1}"

\* C12: for a replace or a register session, append and fail write nothing
\* to the buffer or the register; finalize is the one write and carries the
\* whole accumulated text (for replace: in place of the selection, carriage
\* returns removed); a job that ends in fail leaves buffer and register as
\* they were before the request.
C12_ReplaceRegisterAllOrNothing ==
  /\ [][(out.mode \in {"replace", "register"} /\ (AppendText \/ StreamRaise \/ FailSession)) =>
          (nvim'.buf = nvim.buf /\ nvim'.reg = nvim.reg)]_vars
  /\ [][(out.mode = "register" /\ FinalizeSession) =>
          (nvim'.reg = Streamed /\ nvim'.buf = nvim.buf)]_vars
  /\ [][(out.mode = "replace" /\ FinalizeSession /\ nvim.valid) =>
          LET from == Offset(olog.orig, out.ctx.start_pos.row - 1, out.ctx.start_pos.col - 1)
              to == Offset(olog.orig, out.ctx.end_pos.row - 1, out.ctx.end_pos.col)
              before == Flat(olog.orig)
          IN  /\ nvim'.reg = nvim.reg
              /\ Flat(nvim'.buf) = SubSeq(before, 1, from) \o StripCR(Streamed)
                                   \o SubSeq(before, to + 1, Len(before))]_vars
  /\ [](out.mode \in {"replace", "register"} /\ olog.pc \in {"open", "caught", "failed"} =>
          (nvim.buf = olog.orig /\ nvim.reg = OldRegister))

C12_Witness ==
  /\ out.mode = "replace"
  /\ olog.pc = "failed"
  /\ olog.appended = <<<<"a">>, <<"b", NL, "c">>>>
  /\ olog.finalized = 0
  /\ LastReason = ErrorReason("boom")
  /\ nvim.valid /\ nvim.buf = SourceBuffer

\* the buffer with `ls` put in as new lines after row `row` (1-based)
WithLinesAfter(buf, row, ls) == SubSeq(buf, 1, row) \o ls \o SubSeq(buf, row + 1, Len(buf))

\* C13: an append session puts one blank line after the selection when it
\* is created; a finalize reached when no text was inserted removes it, so
\* that the buffer is as before the request; when text was inserted the
\* buffer holds that text after the selection and finalize removes nothing.
C13_PlaceholderRemovedWhenEmpty ==
  (out.mode = "append" /\ nvim.valid) =>
    LET inserted == StripCR(Streamed)
        row == out.ctx.end_pos.row
    IN  /\ (olog.pc = "open" /\ inserted = <<>>) =>
             nvim.buf = WithLinesAfter(olog.orig, row, <<<<>>>>)
        /\ olog.pc = "applied" =>
             nvim.buf = IF inserted = <<>> THEN olog.orig
                        ELSE WithLinesAfter(olog.orig, row, SplitNL(inserted))

\* C14: on an append, scratch or chat session, fail with a non-empty reason
\* leaves every character up to the end of the streamed content in place
\* and puts the diagnostic after it, on a line of its own with nothing but
\* line breaks in between.
C14_FailKeepsStreamedContent ==
  [][(FailSession /\ out.mode \in {"append", "scratch", "chat"} /\ nvim.valid
      /\ ~Falsy(olog'.reasons[Len(olog'.reasons)])) =>
       LET before == Flat(nvim.buf)
           after == Flat(nvim'.buf)
           shown == IF out.mode = "append" THEN StripCR(Streamed) ELSE Streamed
       IN  \E k \in 0..Len(before), m \in 1..Len(after) :
             /\ IsSuffix(shown, SubSeq(before, 1, k))
             /\ SubSeq(after, 1, k) = SubSeq(before, 1, k)
             /\ k < m /\ m + 2 <= Len(after)
             /\ \A i \in (k + 1)..m : after[i] = NL
             /\ after[m + 1] \in {"> ", "[aitrans] "}
             /\ after[m + 2] = Shown(olog'.reasons[Len(olog'.reasons)])]_vars

C14_Witness ==
  /\ out.mode = "append"
  /\ olog.pc = "failed"
  /\ olog.appended = <<<<"b", NL, "c">>, <<"a">>>>
  /\ LastReason = OtherReason([code |-> 1])
  /\ nvim.buf = <<<<"x", "y">>, <<"b">>, <<"c", "a">>, <<"> ", "{\"code\":1}">>, <<"z">>>>

\* C15: fail never raises, whatever the session and the reason: the call
\* returns to the runner, and where a diagnostic is shown it shows an Error
\* by its message, a string verbatim and any other value as JSON.
C15_FailNeverRaises ==
  /\ olog.pc # "escaped"
  /\ (olog.pc = "failed" /\ nvim.valid /\ out.mode \in {"append", "scratch", "chat"}
      /\ ~Falsy(LastReason)) =>
       \E i \in 1..Len(nvim.buf) :
         /\ Len(nvim.buf[i]) = 2
         /\ nvim.buf[i][2] = Shown(LastReason)



\* a step in which handler slot c takes a chatSubmit call
SubmitCalled(c) ==
  /\ call[c] = NoCall
  /\ \/ call'[c] # NoCall /\ call'[c].op = "chatSubmit"
     \/ call' = call /\ ui'.last # ui.last

\* C16: a chatSubmit called while the active session's streaming flag is true
\* is rejected: the warning is shown and null returned, no job is started,
\* the message log and the prompt text stay as they are, and no call stays
\* behind to send the text later
C16_SubmitRejectedWhileStreaming ==
  [][\A c \in Calls :
       (HasSession(chat) /\ chat.session.streaming /\ SubmitCalled(c)) =>
         /\ ui'.last = [ret |-> "null", warning |-> TRUE]
         /\ call' = call
         /\ chat' = chat
         /\ ui'.prompt = ui.prompt
         /\ ui'.job = ui.job]_vars


\* C17: the active slot never passes from one session straight to another:
\* a session is installed only into a slot that was cleared, and a session
\* with messages that leaves the slot has an entry in the history
C17_InstallAfterArchiveAndClear ==
  [][/\ (HasSession(chat) /\ HasSession(chat')) =>
          chat'.session.id = chat.session.id
     /\ (/\ HasSession(chat)
         /\ Len(chat.session.messages) > 0
         /\ HasSession(chat') => chat'.session.id # chat.session.id) =>
          \E i \in 1..Len(chat'.history) : chat'.history[i].id = chat.session.id]_vars


\* a step in which closeChat runs: as the chatClose handler, or called by
\* openChat, loadChatLog or resumeChat
CloseStep ==
  \/ call' = call /\ ui'.job = ui.job /\ chat' # chat
  \/ \E c \in Calls :
       \/ /\ call[c].op \in {"openChat", "loadChatLog"}
          /\ call[c].pc = "resolve"
          /\ call'[c].pc = "create"
       \/ /\ call[c] = NoCall
          /\ call'[c].op = "chatResume"

\* C18: closeChat on an active session without messages leaves the history
\* as it is; on a session with messages it puts exactly one entry at the
\* head of the history, with the session's id, template, provider,
\* followUpEnabled, providerContext and messages; the slot is null afterwards
C18_CloseArchivesOnce ==
  [][(CloseStep /\ HasSession(chat)) =>
       LET s == chat.session
           kept == IF Len(chat.history) < HISTORY_LIMIT THEN Len(chat.history)
                   ELSE HISTORY_LIMIT - 1
       IN  /\ ~HasSession(chat')
           /\ IF Len(s.messages) = 0 THEN chat'.history = chat.history
              ELSE /\ Len(chat'.history) = kept + 1
                   /\ Tail(chat'.history) = SubSeq(chat.history, 1, kept)
                   /\ LET e == Head(chat'.history)
                      IN  /\ e.id = s.id
                          /\ e.template = s.template
                          /\ e.provider = s.provider
                          /\ e.followUpEnabled = s.followUpEnabled
                          /\ e.providerContext = s.providerContext
                          /\ e.messages = s.messages]_vars
\* a session with a user message and its answer was closed and archived
C18_Witness ==
  /\ ~HasSession(chat)
  /\ Len(chat.history) = 1
  /\ Len(chat.history[1].messages) = 2
  /\ chat.history[1].id = 1


\* C19: the history never holds more than HISTORY_LIMIT entries and is
\* ordered newest first; an entry archived into a full history is at the
\* head afterwards, and exactly the oldest entry is gone
C19_HistoryBoundedNewestFirst ==
  /\ [](/\ Len(chat.history) <= 20
        /\ \A i \in 1..(Len(chat.history) - 1) :
             chat.history[i].createdAt >= chat.history[i + 1].createdAt)
  /\ [][(Len(chat.history) = 20 /\ chat'.history # chat.history) =>
          /\ HasSession(chat)
          /\ Head(chat'.history).id = chat.session.id
          /\ Head(chat'.history).createdAt = ui.clock
          /\ Tail(chat'.history) = SubSeq(chat.history, 1, 19)]_vars
\* a chat was archived into a full history: it is at the head, the oldest
\* of the chats before it is gone
C19_Witness ==
  /\ Len(chat.history) = 20
  /\ chat.history[1].id = 1
  /\ chat.history[20].id = 0 - 19


\* what a replay of the messages shows, blank lines aside: each message's
\* lines under the header of its role
RECURSIVE Replayed(_)
Replayed(ms) ==
  IF ms = <<>> THEN <<>>
  ELSE LET m == Head(ms)
       IN  <<IF m.role = "user" THEN <<"## User">> ELSE <<"## Assistant">>>>
           \o SelectSeq(SplitNL(m.content), LAMBDA l : l # <<>>)
           \o Replayed(Tail(ms))

\* C20: when resumeChat returns, the active session's message log is the
\* target's (same length, same order) and the response buffer shows, below
\* its title, every message of the target once, in order, under the header
\* of its role
C20_ResumeReplaysOnce ==
  [][\A c \in Calls :
       (call[c].op = "chatResume" /\ call[c].pc = "replay" /\ call'[c] = NoCall) =>
         /\ HasSession(chat')
         /\ chat'.session.messages = call[c].target.messages
         /\ SelectSeq(ui'.bufs[chat'.session.id].buf, LAMBDA l : l # <<>>)
              = <<<<"# Aitrans Response">>>> \o Replayed(call[c].target.messages)]_vars
\* a chat of three messages was resumed while another chat was open
C20_Witness ==
  /\ call[1] = NoCall
  /\ HasSession(chat)
  /\ chat.session.id = 2
  /\ Len(chat.session.messages) = 3
  /\ Len(ui.bufs[2].buf) > 8


\* C22: setProviderContext changes nothing without an active session; a
\* context of another provider than the one the session is pinned to leaves
\* the session's context as it is; a context of the session's provider is
\* laid over the existing one, which keeps every field the update does not
\* carry
C22_ProviderContextMerge ==
  [][unit'.of = "setProviderContext" =>
       LET payload == unit'.payload
       IN  IF ~HasSession(chat) THEN chat' = chat
           ELSE LET pinned == chat.session.provider
                    old == chat.session.providerContext
                    new == chat'.session.providerContext
                IN  /\ chat' = [chat EXCEPT !.session.providerContext = new]
                    /\ (pinned # None /\ "provider" \in DOMAIN payload
                          /\ payload.provider # pinned) => new = old
                    /\ (pinned # None /\ "provider" \in DOMAIN payload
                          /\ payload.provider = pinned) =>
                         /\ \A f \in DOMAIN payload : new[f] = payload[f]
                         /\ \A f \in DOMAIN old \ DOMAIN payload :
                              f \in DOMAIN new /\ new[f] = old[f]
                         /\ DOMAIN new \subseteq DOMAIN old \cup DOMAIN payload]_vars
\* a session id reported by codex-cli was laid over a context that held the
\* thread id, and the thread id is still there
C22_Witness ==
  /\ unit.of = "setProviderContext"
  /\ unit.payload = [provider |-> "codex-cli", session_id |-> "s1"]
  /\ HasSession(unit.before)
  /\ unit.before.session.provider = "codex-cli"
  /\ unit.before.session.providerContext = [provider |-> "codex-cli", thread_id |-> "t1"]
  /\ chat.session.providerContext =
       [provider |-> "codex-cli", thread_id |-> "t1", session_id |-> "s1"]

\* C21: a session reconstructed by loadChatLog from the file saveChatLog
\* wrote has the messages, the provider, the follow-up flag and the
\* provider context of the session that was saved.
C21_LogRoundTrip ==
  (unit.of = "loaded" /\ HasSession(chat)) =>
    /\ chat.session.messages = unit.session.messages
    /\ chat.session.provider = unit.session.provider
    /\ chat.session.followUpEnabled = unit.session.followUpEnabled
    /\ chat.session.providerContext = unit.session.providerContext

\* what a call of normalizeFollowUps was given and returned
Normalized == unit.of = "normalizeFollowUps"
Given == IF unit.payload.array THEN unit.payload.items ELSE <<>>
Keyless(e) == "key" \notin DOMAIN e
\* the positions of the first 4 entries of the input that are objects with a
\* text (and a key that is a number, if any) of more than white space
Kept(items) ==
  LET valid(i) == /\ "text" \in DOMAIN items[i]
                  /\ ~Keyless(items[i]) => "string" \notin DOMAIN items[i].key
                  /\ trim(items[i].text) # <<>>
      all == SelectSeq([i \in 1..Len(items) |-> i], valid)
  IN  SubSeq(all, 1, IF Len(all) < 4 THEN Len(all) ELSE 4)
IntegerIn1To4(k) == "tenths" \in DOMAIN k /\ k.tenths \in {10, 20, 30, 40}
Example1 ==
  <<[key |-> Num(5), text |-> <<Space, "A", Space>>], [key |-> Num(0), text |-> <<>>],
    [text |-> <<"B">>], [text |-> <<"C">>], [text |-> <<"D">>], [text |-> <<"E">>]>>
Example2 ==
  <<[key |-> Num(5), text |-> <<"A">>], [key |-> Num(0), text |-> <<"B">>],
    [text |-> <<>>], [text |-> <<Space, "C", Space>>],
    [key |-> Num(2), text |-> <<"D">>], [key |-> Num(3), text |-> <<"E">>]>>
Item(k, t) == [key |-> Num(k), text |-> <<t>>]

\* C23: whatever the payload, normalizeFollowUps returns at most 4 entries:
\* the first 4 valid entries of the input in their order, each with its text
\* trimmed and not empty and with an integer key in [1,4].
C23_FollowUpsBounded ==
  Normalized =>
    LET kept == Kept(Given)
    IN  /\ Len(unit.result) <= 4
        /\ Len(unit.result) = Len(kept)
        /\ \A k \in 1..Len(kept) :
             /\ unit.result[k].text = trim(Given[kept[k]].text)
             /\ unit.result[k].text # <<>>
             /\ IntegerIn1To4(unit.result[k].key)

\* C24: entries without a key are numbered among themselves, 1, 2, 3, ...,
\* whatever keyed entries came before them, and the example returns the keys
\* 4, 1, 2, 3.
C24_KeylessSequential ==
  Normalized =>
    LET kept == Kept(Given)
    IN  /\ \A k \in 1..Len(kept) :
             Keyless(Given[kept[k]]) =>
               unit.result[k].key =
                 Num(Cardinality({m \in 1..k : Keyless(Given[kept[m]])}))
        /\ Given = Example1 =>
             unit.result = <<Item(4, "A"), Item(1, "B"), Item(2, "C"), Item(3, "D")>>

\* C24 as amended: an entry without a key gets the number of entries
\* accepted before it, keyed ones included, plus 1, and the example returns
\* the keys 4, 2, 3, 4.
C24_KeylessByPosition ==
  Normalized =>
    LET kept == Kept(Given)
    IN  /\ \A k \in 1..Len(kept) :
             Keyless(Given[kept[k]]) => unit.result[k].key = Num(k)
        /\ Given = Example1 =>
             unit.result = <<Item(4, "A"), Item(2, "B"), Item(3, "C"), Item(4, "D")>>

C24_Witness ==
  /\ Normalized
  /\ unit.payload.array
  /\ unit.payload.items = Example1
  /\ unit.result = <<Item(4, "A"), Item(2, "B"), Item(3, "C"), Item(4, "D")>>

\* C25: an accepted entry without a key gets the number of entries accepted
\* before it plus 1; a supplied key is truncated to an integer and clamped
\* into [1,4]; the first example's second entry is {2, "B"} and the second
\* example returns the keys 4, 1, 3, 2 for A, B, C, D.
C25_KeysTruncatedAndClamped ==
  Normalized =>
    LET kept == Kept(Given)
        clamped(q) == IF q < 1 THEN 1 ELSE IF q > 4 THEN 4 ELSE q
        whole(t) == IF t >= 0 THEN t \div 10 ELSE -((-t) \div 10)
    IN  /\ \A k \in 1..Len(kept) :
             LET entry == Given[kept[k]]
             IN  IF Keyless(entry) THEN unit.result[k].key = Num(k)
                 ELSE /\ IntegerIn1To4(unit.result[k].key)
                      /\ "tenths" \in DOMAIN entry.key =>
                           unit.result[k].key = Num(clamped(whole(entry.key.tenths)))
        /\ Given = Example1 => unit.result[2] = Item(2, "B")
        /\ Given = Example2 =>
             unit.result = <<Item(4, "A"), Item(1, "B"), Item(3, "C"), Item(2, "D")>>

\* a step in which the accumulator's method op was called
BufferCall(op) ==
  unit.of = "StreamingBuffer" /\ unit'.calls = unit.calls + 1 /\ unit'.last.op = op

\* C26: an accumulator always holds at least one line, and changing an
\* array that append or getLines returned does not change its lines.
C26_AtLeastOneLineAndSnapshots ==
  /\ [](unit.of = "StreamingBuffer" => Len(unit.lines) >= 1)
  /\ [][/\ BufferCall("push") => unit'.lines = unit.lines
        /\ BufferCall("append") \/ BufferCall("getLines") =>
             unit'.last.ret = unit'.lines]_vars

C26_Witness ==
  /\ unit.of = "StreamingBuffer"
  /\ unit.last.op = "push"
  /\ unit.held = <<<<"b">>, <<"c">>, <<"x">>>>
  /\ unit.lines = <<<<"b">>, <<"c">>>>

\* C27: append("") returns the current lines and leaves them as they were.
C27_EmptyAppendIsNoOp ==
  [][(BufferCall("append") /\ unit'.last.arg = <<>>) =>
       /\ unit'.lines = unit.lines
       /\ unit'.last.ret = unit.lines]_vars

C27_Witness ==
  /\ unit.of = "StreamingBuffer"
  /\ unit.last = [op |-> "append", arg |-> <<>>, ret |-> <<<<"b">>, <<"c">>>>]
  /\ unit.lines = <<<<"b">>, <<"c">>>>

\* C28: drainText returns the lines joined by newlines, which is the
\* concatenation of the texts appended since the last clear or drain, and
\* a getLines right after it returns [""].
C28_DrainReturnsAppendedAndClears ==
  [][/\ BufferCall("drainText") =>
          /\ unit'.last.ret = unit.since
          /\ unit'.last.ret = JoinNL(unit.lines)
     /\ (unit.of = "StreamingBuffer" /\ unit.last.op = "drainText"
           /\ BufferCall("getLines")) =>
          unit'.last.ret = <<<<>>>>]_vars

C28_Witness ==
  /\ unit.of = "StreamingBuffer"
  /\ unit.last = [op |-> "drainText", arg |-> <<>>, ret |-> <<"a", "b", NL, "c">>]
  /\ unit.lines = <<<<>>>>

Within(part, whole) ==
  \E i \in 0..(Len(whole) - Len(part)) : SubSeq(whole, i + 1, i + Len(part)) = part

\* C30: the argument vector of a CLI chat turn keeps the cli_args of the
\* provider's definition; for codex-cli it holds exec --json <payload>,
\* followed by resume <thread_id> when a thread id is known; for claude-cli
\* it holds --resume <session_id> when a session id is known; an id kept for
\* another provider is in no vector.
C30_ArgumentVector ==
  (unit.of = "buildCliIterator" /\ unit.out = "chat") =>
    LET known(f) == /\ unit.context # NoContext
                    /\ unit.context.provider = unit.provider
                    /\ f \in DOMAIN unit.context
    IN  /\ Within(unit.cli_args, unit.args)
        /\ unit.provider = "codex-cli" =>
             IF known("thread_id")
             THEN Within(<<"exec", "--json", PayloadJson, "resume", unit.context.thread_id>>,
                         unit.args)
             ELSE Within(<<"exec", "--json", PayloadJson>>, unit.args)
        /\ (unit.provider = "claude-cli" /\ known("session_id")) =>
             Within(<<"--resume", unit.context.session_id>>, unit.args)
        /\ (unit.context # NoContext /\ unit.context.provider # unit.provider) =>
             \A f \in DOMAIN unit.context \ {"provider"} :
               \A i \in 1..Len(unit.args) : unit.args[i] # unit.context[f]

\* C34: the runner invokes exactly one of session.finalize() and
\* session.fail() for a job: never both (no fail after a finalize, not even
\* one that raised), and one of them by the time the runner is done.
C34_FinalizeXorFail ==
  \A j \in JobIds :
    /\ ~(sess[j].finalized > 0 /\ Len(sess[j].failed) > 0)
    /\ Done(j) => sess[j].finalized + Len(sess[j].failed) = 1

\* C35: a job for which stopJob returned true ends with the status stopped:
\* when the last call of the registry was a stopJob that returned true and
\* the job's runner is done, the job's status is stopped (a stop during
\* finalize or the completion callback does not end as applied).
C35_StopWinsOverFinalize ==
  \A j \in JobIds :
    (ret = [op |-> "stopJob", id |-> j, ok |-> TRUE] /\ Done(j)) =>
      job[j].status = "stopped"

\* --------------------------------- chat jobs of one session, one by one
\* the apply calls with out = "chat" made while one chat session is open
Applies == {1, 2}

\* ensureChatPromptLogged: the prompt goes into the response buffer and the
\* message log unless the log's last message is this prompt of the user
ensureChatPromptLogged(n, c, promptText) ==
  LET messages == c.session.messages
  IN  IF ~HasSession(c) THEN Result(NoOutput, n, c, FALSE)
      ELSE IF /\ Len(messages) > 0
              /\ messages[Len(messages)] = ChatMessage("user", promptText)
      THEN Result(NoOutput, n, c, FALSE)
      ELSE Result(NoOutput,
                  appendLinesToResponse(n, <<<<"## You">>, promptText>>),
                  pushMessage(c, ChatMessage("user", promptText)), FALSE)

\* handleApplyRequest with out = "chat", up to createSessionForOutput: the
\* previous job of the session has ended; the first call finds the response
\* buffer as openChat made it
applyToChat ==
  /\ olog.pc \in {"idle", "applied", "failed"}
  /\ (IF unit = NoUnit THEN 1 ELSE unit.call + 1) \in Applies
  /\ LET n0 == IF unit = NoUnit THEN [nvim EXCEPT !.buf = ResponseHeader] ELSE nvim
         logged == ensureChatPromptLogged(n0, chat, PromptText)
         r == createOutputSession("chat", [null |-> TRUE], logged.nvim, logged.chat)
     IN  /\ out' = r.out
         /\ nvim' = r.nvim
         /\ chat' = r.chat
         /\ olog' = [pc |-> "open", orig |-> logged.nvim.buf, appended |-> <<>>,
                     reasons |-> <<>>, finalized |-> 0]
         /\ unit' = [of |-> "applyToChat",
                     call |-> IF unit = NoUnit THEN 1 ELSE unit.call + 1]
  /\ UNCHANGED <<jobVars, call, ui>>

NextChatJobs ==
  \/ applyToChat \/ AppendText \/ FinalizeSession \/ StreamRaise
  \/ FailSession \/ SpinnerTick

SpecChatJobs == InitOutput /\ [][NextChatJobs]_vars

\* C32: during a chat job the `## Assistant` header created for the job and
\* every line of the response buffer above it stay as they were when the
\* job started, whatever the buffer's last line was then: append, finalize,
\* fail and the loading indicator change only the lines below the header.
C32_HeaderAndEarlierLinesKept ==
  (out.mode = "chat" /\ olog.pc # "idle") =>
    LET before == olog.orig
        separator == IF Len(before[Len(before)]) > 0 THEN <<<<>>>> ELSE <<>>
        kept == before \o separator \o <<<<"## Assistant">>>>
    IN  /\ Len(nvim.buf) >= Len(kept)
        /\ SubSeq(nvim.buf, 1, Len(kept)) = kept

\* what the assistant entry of a chat job has been given so far: a non-empty
\* text, the end of the stream or a failure
EntryWritten ==
  /\ out.mode = "chat"
  /\ \/ \E i \in 1..Len(olog.appended) : Len(olog.appended[i]) > 0
     \/ olog.finalized > 0
     \/ Len(olog.reasons) > 0
LoadingRows(b) == {i \in 1..Len(b) : b[i] = <<"Loading...">>}

\* C33: in a chat output session the loading indicator is stopped before the
\* first content is rendered: once append with a non-empty text, finalize or
\* fail has acted on the assistant entry, the loop has ended, the response
\* buffer shows no loading frame and no step writes one afterwards.
C33_NoLoadingFrameAfterContent ==
  /\ [](EntryWritten => ~out.spinner)
  /\ []((EntryWritten /\ nvim.valid) => LoadingRows(nvim.buf) = {})
  /\ [][EntryWritten => LoadingRows(nvim'.buf) \subseteq LoadingRows(nvim.buf)]_vars

C33_Witness ==
  /\ out.mode = "chat"
  /\ olog.pc = "applied"
  /\ olog.appended = <<<<>>, <<"a">>>>
  /\ ~out.spinner
  /\ nvim.buf = ResponseHeader \o <<<<"## User">>, PromptText, <<>>,
                                    <<"## Assistant">>, <<"a">>>>

\* C39: the keys of the list normalizeFollowUps returns are pairwise
\* distinct, so that every entry of the list is the first one with its key,
\* the one applyFollowUp's `followups.find((entry) => entry.key === index)`
\* selects for that key.
C39_KeysPairwiseDistinct ==
  Normalized =>
    \A a \in 1..Len(unit.result), b \in 1..Len(unit.result) :
      unit.result[a].key = unit.result[b].key => a = b

\* ------------------------------------------- closeChat, call within call
\* the calls suspended in `await closeChatWindows(denops, current)`
ClosingWindows == {c \in Calls : call[c].op = "chatClose"}

\* chatClose, the handler up to closeChat's await: the user's command, the
\* `q` mapping, or the WinClosed autocmd of the prompt buffer, which fires
\* while a closeChat closes the windows
chatCloseCall(c) ==
  /\ call[c] = NoCall
  /\ chat' = closeChat(chat, ui.clock)
  /\ IF HasSession(chat)
     THEN /\ call' = [call EXCEPT ![c] = [op |-> "chatClose", pc |-> "windows",
                                          current |-> chat.session.id]]
          /\ ui' = [ui EXCEPT !.clock = IF Len(chat.session.messages) > 0
                                        THEN @ + 1 ELSE @]
     ELSE UNCHANGED <<call, ui>>
  /\ unit' = [of |-> "closeChat", found |-> HasSession(chat),
              reentered |-> ClosingWindows # {}]
  /\ UNCHANGED <<jobVars, outVars>>

\* ... closeChatWindows closed the session's windows (bufhidden=wipe takes
\* the buffers with them) and the handler returns
closeChatWindows(c) ==
  /\ call[c].op = "chatClose"
  /\ ui' = [ui EXCEPT !.bufs[call[c].current] = [buf |-> <<>>, valid |-> FALSE],
                      !.prompt = IF HasSession(chat) THEN @ ELSE <<>>]
  /\ call' = [call EXCEPT ![c] = NoCall]
  /\ UNCHANGED <<unit, jobVars, outVars, chat>>

NextReentry ==
  \/ \E c \in Calls :
       \/ openChat(c) \/ openClose(c) \/ openStart(c)
       \/ handleChatSubmit(c) \/ submitChat(c) \/ submitLog(c)
       \/ chatCloseCall(c) \/ closeChatWindows(c)
  \/ TypePrompt \/ ChatStreamBegin \/ ChatStreamEnd

SpecReentry == InitChat /\ [][NextReentry]_vars

\* C40: a chat session is archived at most once. No id is twice in the
\* history; the session a closeChat is closing the windows of is not the
\* active one any more, and it has its history entry already if it had
\* messages; a closeChat that finds no active session (re-entered from the
\* WinClosed callback, or called again later) adds no history entry and
\* changes nothing.
C40_ArchivedAtMostOnce ==
  /\ [](\A a \in 1..Len(chat.history), b \in 1..Len(chat.history) :
          chat.history[a].id = chat.history[b].id => a = b)
  /\ [](\A c \in ClosingWindows :
          ~(HasSession(chat) /\ chat.session.id = call[c].current))
  /\ [][\A c \in Calls :
          (call[c] = NoCall /\ unit' # unit /\ ~HasSession(chat)) =>
            chat' = chat /\ ui' = ui /\ call' = call]_vars
  /\ [][(unit' # unit /\ unit'.reentered /\ ~HasSession(chat)) =>
          chat'.history = chat.history /\ ~unit'.found]_vars

\* the session with a question and its answer is archived, and while its
\* windows are closing a second closeChat came and found nothing
C40_Witness ==
  /\ unit = [of |-> "closeChat", found |-> FALSE, reentered |-> TRUE]
  /\ ClosingWindows # {}
  /\ ~HasSession(chat)
  /\ Len(chat.history) = 1
  /\ Len(chat.history[1].messages) = 2

\* ----------------------------------- an apply call, from request to job
ErrPrompt == "aitrans: template or prompt_override is required"
ErrModel == "aitrans: model is not specified"
ErrApiKey == "aitrans: API key for openai is not set"

\* the apply requests: with or without a template or prompt, for an API or
\* a CLI provider, with or without a model and an API key in the
\* configuration, into the buffer or into the chat
ApplyRequests ==
  [given : BOOLEAN, provider : {"openai", "codex-cli"}, model : BOOLEAN,
   key : BOOLEAN, out : {"replace", "chat"}]

\* buildApiIterator: the error it throws, None when it returns the generator
buildApiIterator(request) ==
  IF ~request.model THEN ErrModel
  ELSE IF ~request.key THEN ErrApiKey
  ELSE None

Applying(at) == unit.of = "handleApplyRequest" /\ unit.pc = at

\* handleApplyRequest up to createSessionForOutput: resolvePromptBlock
\* throws when the request names no template and carries no prompt
handleApplyRequest ==
  /\ unit = NoUnit
  /\ \E request \in ApplyRequests :
       unit' = [of |-> "handleApplyRequest", request |-> request,
                pc |-> IF request.given THEN "session" ELSE "raised",
                error |-> IF request.given THEN None ELSE ErrPrompt]
  /\ UNCHANGED <<jobVars, outVars, chatVars>>

\* ... createSessionForOutput: for out = "chat" the prompt is logged and
\* createChatOutputSession starts the entry, the loading indicator and
\* raises the streaming flag
createSessionForOutput ==
  /\ Applying("session")
  /\ \E ctx \in Selections :
       LET logged == IF unit.request.out = "chat"
                     THEN ensureChatPromptLogged([nvim EXCEPT !.buf = ResponseHeader],
                                                 chat, PromptText)
                     ELSE Result(NoOutput, nvim, chat, FALSE)
           r == createOutputSession(unit.request.out, ctx, logged.nvim, logged.chat)
       IN  /\ out' = r.out
           /\ nvim' = r.nvim
           /\ chat' = r.chat
           /\ olog' = [olog EXCEPT !.pc = "open", !.orig = logged.nvim.buf]
  /\ unit' = [unit EXCEPT !.pc = "start"]
  /\ UNCHANGED <<jobVars, call, ui>>

\* ... startApplyJob: the record goes into `jobs`, then the iterator is
\* built; buildApiIterator may throw, else runJob sets the job streaming and
\* the handler returns the summary
startApplyJob(j) ==
  /\ Applying("start")
  /\ j \notin jobs
  /\ jobs' = jobs \cup {j}
  /\ LET error == IF unit.request.provider \in CliProviders THEN None
                  ELSE buildApiIterator(unit.request)
     IN  /\ job' = [job EXCEPT ![j] =
                      [status |-> IF error = None THEN "streaming" ELSE "pending",
                       aborted |-> FALSE]]
         /\ unit' = [unit EXCEPT !.pc = IF error = None THEN "returned" ELSE "raised",
                                 !.error = error]
  /\ UNCHANGED <<impl, pc, run, sess, cli, ret, outVars, chatVars>>

\* the runner of the job: appends, then the stream ends (finalize) or
\* raises (fail)
runJobAppend == Applying("returned") /\ AppendText
runJobEnd == Applying("returned") /\ (FinalizeSession \/ StreamRaise \/ FailSession)

NextApply ==
  \/ handleApplyRequest \/ createSessionForOutput
  \/ \E j \in JobIds : startApplyJob(j)
  \/ runJobAppend \/ runJobEnd \/ SpinnerTick

SpecApply == InitOutput /\ [][NextApply]_vars

\* every handler step is taken, and every chunk stream ends or raises
SpecApplyLive ==
  /\ SpecApply
  /\ WF_vars(createSessionForOutput)
  /\ WF_vars(\E j \in JobIds : startApplyJob(j))
  /\ WF_vars(runJobEnd)

\* C31: an apply call that fails with a configuration or request-validation
\* error (no template and no prompt, model not specified, API key not set)
\* raises before any job is registered: the job registry is as it was before
\* the call, which is empty here.
C31_FailedCallLeavesRegistry ==
  Applying("raised") => jobs = {}

\* C38: whenever the active chat session's streaming flag is true it
\* eventually becomes false, given that every chunk stream ends or raises;
\* also for an apply call that raises after the chat output session was
\* created.
C38_StreamingEventuallyFalse ==
  (HasSession(chat) /\ chat.session.streaming)
    ~> ~(HasSession(chat) /\ chat.session.streaming)

\* ------------------------------- chat output sessions of concurrent calls
\* the chat output sessions that are open, each by the id of the chat
\* session that was active when createChatOutputSession made it
OpenOutputs == IF unit = NoUnit THEN <<>> ELSE unit.open
ApplyCalls == {c \in Calls : call[c].op = "apply"}

\* apply with out = "chat": handleApplyRequest suspends (runtime
\* configuration, context, prompt) before createSessionForOutput; nothing
\* looks at the streaming flag
applyOutChat(c) ==
  /\ call[c] = NoCall
  /\ HasSession(chat)
  /\ Len(chat.session.messages) < MaxMessages
  /\ Len(OpenOutputs) + Cardinality(ApplyCalls) < Cardinality(Calls)
  /\ call' = [call EXCEPT ![c] = [op |-> "apply", pc |-> "session"]]
  /\ UNCHANGED <<unit, jobVars, outVars, chat, ui>>

\* chatSubmit after submitChat: appendUserMessageToChat, then
\* handleApplyRequest with out = "chat" suspends as above
submitApply(c) ==
  /\ call[c].op = "chatSubmit"
  /\ call[c].pc = "log"
  /\ Len(OpenOutputs) + Cardinality(ApplyCalls) < Cardinality(Calls)
  /\ LET r == appendMessageToChat(chat, ui, call[c].session,
                                  ChatMessage("user", PromptText), TRUE)
     IN  chat' = r.chat /\ ui' = r.ui
  /\ call' = [call EXCEPT ![c] = [op |-> "apply", pc |-> "session"]]
  /\ UNCHANGED <<unit, jobVars, outVars>>

\* ... createSessionForOutput for out = "chat": a chat is opened when none
\* is active, the prompt is logged unless it is the log's last message, and
\* createChatOutputSession raises the streaming flag; startApplyJob starts
\* the runner and the handler returns
createChatOutputSession(c) ==
  /\ call[c].op = "apply"
  /\ HasSession(chat) \/ ui.nextId + Creating <= Cardinality(SessionIds)
  /\ LET o == IF HasSession(chat) THEN [chat |-> chat, ui |-> ui]
              ELSE LET r == createChatSession(ui, DefaultOpts)
                   IN  [chat |-> setStreaming(startSession(chat, r.session), FALSE),
                        ui |-> r.ui]
         ms == o.chat.session.messages
         logged == /\ Len(ms) > 0
                   /\ ms[Len(ms)] = ChatMessage("user", PromptText)
         l == IF logged THEN o
              ELSE appendMessageToChat(o.chat, o.ui, o.chat.session.id,
                                       ChatMessage("user", PromptText), TRUE)
     IN  /\ chat' = setStreaming(l.chat, TRUE)
         /\ ui' = l.ui
         /\ unit' = [of |-> "createChatOutputSession",
                     streaming |-> l.chat.session.streaming,
                     open |-> Append(OpenOutputs, l.chat.session.id),
                     ended |-> 0]
  /\ call' = [call EXCEPT ![c] = NoCall]
  /\ UNCHANGED <<jobVars, outVars>>

\* the job of the k-th open output session ends: finalize dispatches
\* pushMessage and setStreaming(false), fail dispatches setStreaming(false);
\* the reducers act on whatever session is active
outputSessionEnd(k) ==
  /\ k \in 1..Len(OpenOutputs)
  /\ \E ok \in BOOLEAN :
       chat' = setStreaming(IF ok THEN pushMessage(chat, ChatMessage("assistant", ReplyText))
                            ELSE chat, FALSE)
  /\ unit' = [unit EXCEPT !.open = SubSeq(@, 1, k - 1) \o SubSeq(@, k + 1, Len(@)),
                          !.ended = unit.open[k]]
  /\ UNCHANGED <<jobVars, outVars, call, ui>>

NextChatOutputs ==
  \/ \E c \in Calls :
       \/ openChat(c) \/ openClose(c) \/ openStart(c)
       \/ handleChatSubmit(c) \/ submitChat(c) \/ submitApply(c)
       \/ applyOutChat(c) \/ createChatOutputSession(c)
  \/ \E k \in 1..Cardinality(Calls) : outputSessionEnd(k)
  \/ chatClose \/ TypePrompt

\* main.ts, no chat opened yet
InitChatOutputs ==
  /\ impl = "main"
  /\ JobIdle
  /\ OutputIdle
  /\ ChatIdle

SpecChatOutputs == InitChatOutputs /\ [][NextChatOutputs]_vars

\* C36: at most one job at a time has an open chat output session on the
\* active chat session: createChatOutputSession finds the streaming flag
\* false whenever it runs, under any interleaving of chatSubmit calls and
\* apply calls with out = "chat".
C36_OneOutputSessionAtATime ==
  /\ [][unit' # unit /\ unit'.ended = 0 => ~unit'.streaming]_vars
  /\ [](HasSession(chat) =>
          Cardinality({k \in 1..Len(OpenOutputs) :
                         OpenOutputs[k] = chat.session.id}) <= 1)

\* C37: the finalize or fail of a chat job acts on the chat session the job
\* was created for only: when that session is not the active one any more,
\* the end of the job adds no message to the active session's log and
\* leaves its streaming flag as it is.
C37_EndTouchesOwnSessionOnly ==
  [][(unit' # unit /\ unit'.ended # 0 /\ HasSession(chat)
      /\ chat.session.id # unit'.ended) =>
       /\ chat'.session.messages = chat.session.messages
       /\ chat'.session.streaming = chat.session.streaming]_vars

====
